---- MODULE Spec2Model ----
(***************************************************************************)
(* State-machine model of the devteam repository (MaximVK/devteam).        *)
(*                                                                         *)
(* Each component of the program is modelled by its own group of variables *)
(* and has its own specification; a specification leaves the variables of  *)
(* the other components at their constructed values.                       *)
(*                                                                         *)
(*   SpecPort        core/orchestrator.py   PortConfig                     *)
(*   SpecAgentTasks  core/claude_agent.py   assign_task / complete_task    *)
(*   SpecAgentMsgs   core/claude_agent.py   process_message                *)
(*   SpecProject     core/project_config.py ProjectConfig agents           *)
(*   SpecOrch        core/orchestrator.py   AgentOrchestrator lifecycle    *)
(*   SpecAssign      core/orchestrator.py   assign_github_tasks            *)
(*   SpecManager     core/agent_manager.py  start / stop / restart         *)
(*   SpecLiveness    core/agent_manager.py  loading the PID file           *)
(*   SpecEndpoints   web/app_api.py         single-agent start / stop      *)
(*   SpecPortReuse   core/agent_manager.py  ports across project starts    *)
(*   SpecStopAgent   web/app_api.py         stop of one agent, any shape   *)
(*   SpecStatus      core/agent_manager.py  get_all_projects_status        *)
(*   SpecProjMgr     core/project_manager.py create_project / create_agent *)
(*   SpecBridge      core/telegram_bridge.py _handle_message               *)
(*   SpecRelay       telegram_bridge/bridge.py send_to_agent               *)
(*   SpecSandbox     core/agent_tools.py    path validation, file tools    *)
(*   SpecToolReply   agents/run_project_agent.py process_message           *)
(***************************************************************************)
EXTENDS Integers, Sequences, FiniteSets, TLC

VARIABLES
    port_config,   \* PortConfig: [start_port, max_agents, allocated_ports]
    settings,      \* ClaudeAgent.settings (AgentSettings): [role]
    tasks,         \* the Task objects, by identity: [status, assigned_to]
    agent_state,   \* ClaudeAgent.state (AgentState)
    project_config,\* ProjectConfig: [active_agents, agent_configurations]
    project_file,  \* project.config.json, as last written by save()
    agents,        \* AgentOrchestrator.agents: role -> AgentProcess
    processes,     \* AgentOrchestrator.processes: role -> pid of the Popen
    config_files,  \* the files written under AgentOrchestrator.config_dir
    bridge,        \* AgentOrchestrator.telegram_bridge: [present, registry]
    github_sync,   \* AgentOrchestrator.github_sync is set
    issues,        \* the tracker's issues: number -> [labels, assignee, state]
    effects,       \* calls made by the last assign_github_tasks() run
    running_processes, \* AgentManager.running_processes: project -> agent -> process
    allocated_ports,   \* AgentManager.allocated_ports: project -> agent -> port
    pid_file,      \* .agent_pids.json: project -> agent -> pid
    port_file,     \* .agent_ports.json: project -> agent -> port
    os_procs,      \* the host's process table: pid -> [cmdline, readable]
    tg_registry,   \* core TelegramBridge.registry.agents: role -> [url, port]
    tg_session,    \* bridge.py TelegramBridge.session is set
    tg_update,     \* update.message.text of the update being delivered
    sb_links,      \* the symbolic links on disk: path of the link -> target
    sb_allowed,    \* AgentTools.allowed_paths
    sb_path,       \* the path an agent asks a file tool for
    proj_fs,       \* the project directory on disk, as ProjectManager leaves it
    app_registry,  \* app_config.projects: the registered project ids
    pa_response,   \* the model's response a project agent is about to post-process
    call           \* the last call made on the component and what it returned

vars == <<port_config, settings, tasks, agent_state, project_config,
         project_file, agents, processes, config_files, bridge, github_sync,
         issues, effects, running_processes, allocated_ports, pid_file,
         port_file, os_procs, tg_registry, tg_session, tg_update,
         sb_links, sb_allowed, sb_path, proj_fs, app_registry,
         pa_response, call>>

varsPort == <<port_config>>

varsAgent == <<settings, tasks, agent_state>>

varsProject == <<project_config, project_file>>

varsOrch == <<agents, processes, config_files, bridge, github_sync, issues, effects>>

varsMgr == <<running_processes, allocated_ports, pid_file, port_file, os_procs>>

varsPM == <<proj_fs, app_registry>>

\* The variables of the components modelled after the first five.
varsTg == <<tg_registry, tg_session, tg_update>>

varsSb == <<sb_links, sb_allowed, sb_path>>

varsPA == <<pa_response>>

varsLater == <<varsPM, varsTg, varsSb, varsPA>>

(***************************************************************************)
(* Generic helpers.                                                        *)
(***************************************************************************)
Range(f) == {f[x] : x \in DOMAIN f}

Without(f, k) == [x \in DOMAIN f \ {k} |-> f[x]]

EmptyMap == [x \in {} |-> x]

NoCall == [op |-> "init"]

\* Role names (AgentRole values).
Roles == {"frontend", "backend", "database", "qa"}

\* Python's None, where the model needs it among strings.
None == "None"

RECURSIVE SumSeq(_)
SumSeq(q) == IF q = << >> THEN 0 ELSE Head(q) + SumSeq(Tail(q))

(***************************************************************************)
(* core/claude_agent.py: ClaudeAgent                                       *)
(*                                                                         *)
(* A Task is a mutable object that the agent state refers to: current_task *)
(* and the elements of task_history are references into "tasks", so a      *)
(* change of a Task shows through every reference to it.  The timestamps   *)
(* (updated_at, last_activity) are left out.                               *)
(***************************************************************************)
\* The Task objects callers hold and pass to assign_task.
TaskObjs == {"task1", "task2"}

\* Bound: completions per run (task_history grows without limit).
MaxHistory == 3

\* Bound: input_tokens and output_tokens of one response are in 1..MaxUsage.
MaxUsage == 2

\* Bound: the cumulative counter is followed up to this value.
MaxTokens == 8

\* Task(...): status defaults to TaskStatus.TODO, assigned_to to None.
TaskNew == [status |-> "todo", assigned_to |-> None]

\* AgentState(): defaults.
AgentStateNew ==
    [current_task |-> None, task_history |-> << >>,
     total_tokens_used |-> 0, messages |-> << >>]

\* ClaudeAgent.assign_task
assign_task(st, heap, task, role) ==
    [state |-> [st EXCEPT !.current_task = task],
     tasks |-> [heap EXCEPT ![task].assigned_to = role,
                            ![task].status = "in_progress"]]

\* ClaudeAgent.complete_task
\* Mutant: the completion that forgets to clear current_task.
complete_task_keeps_current(st, heap) ==
    IF st.current_task # None
    THEN [state |-> [st EXCEPT !.task_history = Append(@, st.current_task)],
          tasks |-> [heap EXCEPT ![st.current_task].status = "done"],
          returned |-> st.current_task]
    ELSE [state |-> st, tasks |-> heap, returned |-> None]

complete_task(st, heap) ==
    IF st.current_task # None
    THEN [state |-> [st EXCEPT !.task_history = Append(@, st.current_task),
                               !.current_task = None],
          tasks |-> [heap EXCEPT ![st.current_task].status = "done"],
          returned |-> st.current_task]
    ELSE [state |-> st, tasks |-> heap, returned |-> None]

\* What self.client.messages.create(...) can do: raise, or return a response
\* with its usage and its content blocks (a list that may be empty, and whose
\* first block has a text attribute only when it is a text block).
TextBlock == [type |-> "text", text |-> "response text"]

ToolUseBlock == [type |-> "tool_use"]

ApiOutcomes ==
    {[kind |-> "raise"]} \cup
    [kind : {"response"}, input_tokens : 1..MaxUsage, output_tokens : 1..MaxUsage,
     content : {<< >>, <<TextBlock>>, <<ToolUseBlock>>}]

ErrorString == "Error processing message"

\* response.content[0].text: defined when the list is not empty and the first
\* block is a text block; IndexError / AttributeError otherwise.
HasText(response) ==
    /\ Len(response.content) > 0
    /\ "text" \in DOMAIN response.content[1]

\* ClaudeAgent.process_message (the context argument only changes the prompt).
process_message(st, message, outcome) ==
    IF outcome.kind = "raise"
    THEN [state |-> st, returned |-> ErrorString]
    ELSE LET used == outcome.input_tokens + outcome.output_tokens
             counted == [st EXCEPT !.total_tokens_used = @ + used]
         IN IF ~HasText(outcome)
            THEN [state |-> counted, returned |-> ErrorString]
            ELSE [state |-> [counted EXCEPT !.messages = Append(@,
                               [user_message |-> message,
                                assistant_response |-> outcome.content[1].text,
                                tokens_used |-> used])],
                  returned |-> outcome.content[1].text]

AgentInit ==
    /\ settings \in [role : Roles]
    /\ tasks = [t \in TaskObjs |-> TaskNew]
    /\ agent_state = AgentStateNew

AgentIdle ==
    /\ settings = [role |-> "backend"]
    /\ tasks = [t \in TaskObjs |-> TaskNew]
    /\ agent_state = AgentStateNew

AssignTask ==
    \E task \in TaskObjs :
        LET r == assign_task(agent_state, tasks, task, settings.role) IN
        /\ agent_state' = r.state
        /\ tasks' = r.tasks
        /\ call' = [op |-> "assign_task", task |-> task, returned |-> None]
        /\ UNCHANGED <<varsLater, varsMgr, settings, varsPort, varsProject, varsOrch>>

CompleteTask ==
    LET r == complete_task(agent_state, tasks) IN
    /\ Len(r.state.task_history) <= MaxHistory
    /\ agent_state' = r.state
    /\ tasks' = r.tasks
    /\ call' = [op |-> "complete_task", task |-> agent_state.current_task,
                returned |-> r.returned]
    /\ UNCHANGED <<varsLater, varsMgr, settings, varsPort, varsProject, varsOrch>>

ProcessMessage ==
    \E message \in {"hello"}, outcome \in ApiOutcomes :
        LET r == process_message(agent_state, message, outcome) IN
        /\ r.state.total_tokens_used <= MaxTokens
        /\ agent_state' = r.state
        /\ call' = [op |-> "process_message", outcome |-> outcome,
                    returned |-> r.returned]
        /\ UNCHANGED <<varsLater, varsMgr, settings, tasks, varsPort, varsProject, varsOrch>>

AgentTasksNext == AssignTask \/ CompleteTask

AgentMsgsNext == ProcessMessage

(***************************************************************************)
(* core/project_config.py: ProjectConfig (agents of a project)             *)
(*                                                                         *)
(* Strings that the code takes apart or builds (roles, names, agent ids)   *)
(* are sequences of one-character strings.                                 *)
(***************************************************************************)
\* Bound: active agents of the project at one time.
MaxAgents == 3

\* Bound: agent ids ever configured (agent_configurations is never pruned).
MaxConfigured == 4

\* Roles and display names given to add_agent.
ProjectRoles == {<<"b">>, <<"f">>}

AgentNames == {<<"X">>, <<"x", " ", "1">>}

Workspaces == {"agents/workspace"}

\* str.lower(), on the characters used.
LowerChar(c) == IF c = "X" THEN "x" ELSE c

\* name.lower().replace(' ', '-')
NameSlug(name) ==
    [i \in 1..Len(name) |->
        IF LowerChar(name[i]) = " " THEN "-" ELSE LowerChar(name[i])]

\* AgentInfo.agent_id: f"{role}-{name.lower().replace(' ', '-')}"
agent_id(role, name) == role \o <<"-">> \o NameSlug(name)

\* str(counter), in decimal.
Digit(d) ==
    CASE d = 0 -> "0" [] d = 1 -> "1" [] d = 2 -> "2" [] d = 3 -> "3"
      [] d = 4 -> "4" [] d = 5 -> "5" [] d = 6 -> "6" [] d = 7 -> "7"
      [] d = 8 -> "8" [] d = 9 -> "9"

RECURSIVE Decimal(_)
Decimal(k) == IF k < 10 THEN <<Digit(k)>> ELSE Decimal(k \div 10) \o <<Digit(k % 10)>>

\* f"{agent_id}-{counter}"
Suffixed(base, counter) == base \o <<"-">> \o Decimal(counter)

\* while f"{agent_id}-{counter}" in self.active_agents: counter += 1
\* Mutant: the loop that never runs, so the suffix is always -1.
FreeCounterAlwaysOne(base, counter, keys) == counter

RECURSIVE FreeCounter(_, _, _)
FreeCounter(base, counter, keys) ==
    IF Suffixed(base, counter) \in keys
    THEN FreeCounter(base, counter + 1, keys)
    ELSE counter

\* AgentConfiguration.get_default_for_role(agent_id, role)
DefaultConfiguration(id, role) == [agent_id |-> id, role |-> role, custom |-> FALSE]

\* ProjectConfig.add_agent, up to its self.save() (the write of the file is
\* taken to succeed).
add_agent(cfg, role, name, workspace_path) ==
    LET agent == [role |-> role, name |-> name, workspace |-> workspace_path]
        base == agent_id(role, name)
        id == IF base \in DOMAIN cfg.active_agents
              THEN Suffixed(base, FreeCounter(base, 1, DOMAIN cfg.active_agents))
              ELSE base
        configs == IF id \notin DOMAIN cfg.agent_configurations
                   THEN cfg.agent_configurations @@ (id :> DefaultConfiguration(id, role))
                   ELSE cfg.agent_configurations
    IN [cfg |-> [active_agents |-> (id :> agent) @@ cfg.active_agents,
                 agent_configurations |-> configs],
        returned |-> id]

\* ProjectConfig.remove_agent, up to its self.save().
remove_agent(cfg, id) ==
    IF id \in DOMAIN cfg.active_agents
    THEN [cfg |-> [cfg EXCEPT !.active_agents = Without(@, id)], returned |-> TRUE]
    ELSE [cfg |-> cfg, returned |-> FALSE]

\* ProjectConfig(...): no agents, no agent configurations.
ProjectConfigNew == [active_agents |-> EmptyMap, agent_configurations |-> EmptyMap]

ProjectInit ==
    /\ project_config = ProjectConfigNew
    /\ project_file = ProjectConfigNew

ProjectIdle == ProjectInit

\* add_agent(role, name, workspace_path), with its save().
AddAgent ==
    \E role \in ProjectRoles, name \in AgentNames, ws \in Workspaces :
        LET r == add_agent(project_config, role, name, ws) IN
        /\ Cardinality(DOMAIN project_config.active_agents) < MaxAgents
        /\ Cardinality(DOMAIN r.cfg.agent_configurations) <= MaxConfigured
        /\ project_config' = r.cfg
        /\ project_file' = r.cfg
        /\ call' = [op |-> "add_agent", role |-> role, name |-> name,
                    returned |-> r.returned]
        /\ UNCHANGED <<varsLater, varsMgr, varsPort, varsAgent, varsOrch>>

\* remove_agent(agent_id) for a registered or an unknown id; it saves only
\* when it removed something.
RemoveAgent ==
    \E id \in DOMAIN project_config.active_agents
              \cup {agent_id(role, name) : role \in ProjectRoles, name \in AgentNames} :
        LET r == remove_agent(project_config, id) IN
        /\ project_config' = r.cfg
        /\ project_file' = IF r.returned THEN r.cfg ELSE project_file
        /\ call' = [op |-> "remove_agent", id |-> id, returned |-> r.returned]
        /\ UNCHANGED <<varsLater, varsMgr, varsPort, varsAgent, varsOrch>>

ProjectNext == AddAgent \/ RemoveAgent

(***************************************************************************)
(* core/orchestrator.py: PortConfig                                        *)
(***************************************************************************)
\* Bound: the largest pool size (max_agents) a PortConfig is constructed with.
MaxPool == 3

\* PortConfig.start_port default.
DefaultStartPort == 8300

\* PortConfig.max_agents default.
DefaultMaxAgents == 20

\* A freshly constructed PortConfig with the given pool size.
PortConfigNew(n) ==
    [start_port |-> DefaultStartPort, max_agents |-> n, allocated_ports |-> EmptyMap]

\* for port in range(lo, hi): if port not in used_ports: return port
\* hi stands for "no port of the range is free".
\* Mutant: the scan without its "not in used_ports" test.
FirstFreeIgnoresUsed(port, hi, used) ==
    IF port >= hi THEN hi ELSE port

RECURSIVE FirstFree(_, _, _)
FirstFree(port, hi, used) ==
    IF port >= hi THEN hi
    ELSE IF port \notin used THEN port
    ELSE FirstFree(port + 1, hi, used)

\* PortConfig.allocate_port: the new configuration, the port returned and the
\* failure raised ("" when none).
allocate_port(cfg, role) ==
    IF role \in DOMAIN cfg.allocated_ports
    THEN [cfg |-> cfg, port |-> cfg.allocated_ports[role], raised |-> ""]
    ELSE LET used_ports == Range(cfg.allocated_ports)
             hi == cfg.start_port + cfg.max_agents
             port == FirstFree(cfg.start_port, hi, used_ports)
         IN IF port < hi
            THEN [cfg |-> [cfg EXCEPT !.allocated_ports = @ @@ (role :> port)],
                  port |-> port, raised |-> ""]
            ELSE [cfg |-> cfg, port |-> hi, raised |-> "No available ports"]

\* PortConfig.release_port
release_port(cfg, role) ==
    IF role \in DOMAIN cfg.allocated_ports
    THEN [cfg EXCEPT !.allocated_ports = Without(@, role)]
    ELSE cfg

PortInit == \E n \in 1..MaxPool : port_config = PortConfigNew(n)

\* AgentOrchestrator.__init__: self.port_config = PortConfig()
PortIdle == port_config = PortConfigNew(DefaultMaxAgents)

AllocatePort ==
    \E role \in Roles :
        LET r == allocate_port(port_config, role) IN
        /\ UNCHANGED <<varsLater, varsMgr, varsAgent, varsProject, varsOrch>>
        /\ port_config' = r.cfg
        /\ call' = [op |-> "allocate_port", role |-> role,
                    port |-> r.port, raised |-> r.raised]

\* The call record keeps whether the role held a port and which one, so that a
\* following allocation can be compared with the port this call freed.
ReleasePort ==
    \E role \in Roles :
        /\ UNCHANGED <<varsLater, varsMgr, varsAgent, varsProject, varsOrch>>
        /\ port_config' = release_port(port_config, role)
        /\ call' = [op |-> "release_port", role |-> role,
                    held |-> role \in DOMAIN port_config.allocated_ports,
                    port |-> IF role \in DOMAIN port_config.allocated_ports
                             THEN port_config.allocated_ports[role]
                             ELSE port_config.start_port,
                    raised |-> ""]

PortNext == AllocatePort \/ ReleasePort

(***************************************************************************)
(* core/orchestrator.py: AgentOrchestrator                                 *)
(***************************************************************************)
\* Roles the orchestrator is asked to manage.
OrchRoles == {"backend", "frontend", "qa"}

\* Process ids the OS hands out to spawned agents.
Pids == {101, 102}

\* What the OS does during one start_agent: Popen succeeds (with a pid) or
\* raises, and the agent answers /status within the timeout or not.
StartEnvs == [popen : {"ok", "OSError"}, pid : Pids, ready : BOOLEAN]

\* AgentProcess(role=role, port=port, env_file=...): pid None, status "stopped".
AgentProcessNew(role, port) ==
    [port |-> port, pid |-> None, status |-> "stopped", env_file |-> <<".env", role>>]

\* AgentOrchestrator.start_agent, on o = [agents, processes].
start_agent(o, role, env) ==
    IF role \notin DOMAIN o.agents
    THEN [o |-> o, raised |-> "Agent not found"]
    ELSE IF role \in DOMAIN o.processes
    THEN [o |-> o, raised |-> ""]
    ELSE IF env.popen # "ok"
    THEN [o |-> o, raised |-> "OSError"]
    ELSE LET started ==
                 [agents |-> [o.agents EXCEPT ![role].pid = env.pid,
                                              ![role].status = "running"],
                  processes |-> (role :> env.pid) @@ o.processes]
         IN [o |-> started, raised |-> IF env.ready THEN "" ELSE "TimeoutError"]

\* AgentOrchestrator.create_agent, on o = [agents, processes], the port
\* configuration pc, the files of config_dir and the chat bridge b.
create_agent(o, pc, files, b, role, env) ==
    IF role \in DOMAIN o.agents
    THEN [o |-> o, pc |-> pc, files |-> files, bridge |-> b,
          raised |-> "already exists"]
    ELSE LET a == allocate_port(pc, role) IN
         IF a.raised # ""
         THEN [o |-> o, pc |-> pc, files |-> files, bridge |-> b, raised |-> a.raised]
         ELSE LET written == files \cup {<<".env", role>>, <<"claude", role>>}
                  agent == AgentProcessNew(role, a.port)
                  s == start_agent(o, role, env)
              IN IF s.raised # ""
                 THEN [o |-> s.o, pc |-> a.cfg, files |-> written, bridge |-> b,
                       raised |-> s.raised]
                 ELSE [o |-> [s.o EXCEPT !.agents = (role :> agent) @@ s.o.agents],
                       pc |-> a.cfg, files |-> written,
                       bridge |-> IF b.present
                                  THEN [b EXCEPT !.registry = @ \cup {role}]
                                  ELSE b,
                       raised |-> ""]

\* AgentOrchestrator.stop_agent: terminate, wait up to 5 seconds, kill if the
\* process is still there; "signals" are the requests sent to the process.
stop_agent(o, role, exits_in_time) ==
    IF role \notin DOMAIN o.processes
    THEN [o |-> o, signals |-> << >>]
    ELSE [o |-> [agents |-> IF role \in DOMAIN o.agents
                            THEN [o.agents EXCEPT ![role].status = "stopped",
                                                  ![role].pid = None]
                            ELSE o.agents,
                 processes |-> Without(o.processes, role)],
          signals |-> IF exits_in_time THEN <<"terminate">>
                      ELSE <<"terminate", "kill">>]

\* Issue numbers of the tracker, and the roles whose agents are synced.
IssueNumbers == {1, 2}

AssignRoles == {"backend", "frontend"}

Pairs == AssignRoles \X IssueNumbers

\* What the calls made for one task can do: the POST to /assign answers 200,
\* answers another status or raises; update_issue_status succeeds, catches a
\* GithubException (and returns False) or lets another exception through.
\* "none": the call is not made.
TaskOutcomes ==
    {[post |-> "500", update |-> "none"], [post |-> "raise", update |-> "none"]}
    \cup [post : {"200"}, update : {"ok", "GithubException", "raise"}]

\* Nothing done for a (role, issue) pair.
NoCalls == [posts |-> 0, status |-> "none", updates |-> 0, result |-> "none", notes |-> 0]

NoEffects == [p \in Pairs |-> NoCalls]

\* GitHubSync.get_tasks_for_role: the open issues labelled role:{role}, or
\* nothing when the tracker raises a GithubException.
get_tasks_for_role(iss, role, fetch) ==
    IF fetch # "ok" THEN {}
    ELSE {n \in DOMAIN iss : iss[n].state = "open" /\ role \in iss[n].labels}

\* if task.assignee: continue
\* Mutant: the loop without the assignee test.
AlreadyAssignedNever(task) == FALSE

AlreadyAssigned(task) == task.assignee # None

\* The body of the task loop of assign_github_tasks for one task: the POST,
\* then on a 200 the status update, then the chat notification.
AssignOne(out, b) ==
    [posts |-> 1, status |-> out.post,
     updates |-> IF out.post = "200" THEN 1 ELSE 0,
     result |-> out.update,
     notes |-> IF out.post = "200" /\ out.update # "raise" /\ b.present
               THEN 1 ELSE 0]

\* The (role, issue) pairs the loops of assign_github_tasks reach.
Visited(ags, iss, fetch) ==
    {p \in Pairs :
        /\ p[1] \in DOMAIN ags /\ ags[p[1]].status = "running"
        /\ p[2] \in get_tasks_for_role(iss, p[1], fetch[p[1]])
        /\ ~AlreadyAssigned(iss[p[2]])}

\* AgentOrchestrator.assign_github_tasks: the calls it makes, per pair.
assign_github_tasks(ags, iss, b, gh, fetch, outs) ==
    IF ~gh THEN NoEffects
    ELSE [p \in Pairs |->
            IF p \in Visited(ags, iss, fetch) THEN AssignOne(outs[p], b) ELSE NoCalls]

\* AgentOrchestrator.__init__, and initialize() with or without the chat
\* bridge and the issue tracker.
OrchInit ==
    /\ agents = EmptyMap
    /\ processes = EmptyMap
    /\ config_files = {}
    /\ bridge \in [present : BOOLEAN, registry : {{}}]
    /\ github_sync \in BOOLEAN
    /\ issues = EmptyMap
    /\ effects = NoEffects

OrchIdle ==
    /\ agents = EmptyMap
    /\ processes = EmptyMap
    /\ config_files = {}
    /\ bridge = [present |-> FALSE, registry |-> {}]
    /\ github_sync = FALSE
    /\ issues = EmptyMap
    /\ effects = NoEffects

CreateAgent ==
    \E role \in OrchRoles, env \in StartEnvs :
        LET r == create_agent([agents |-> agents, processes |-> processes],
                              port_config, config_files, bridge, role, env)
        IN /\ agents' = r.o.agents
           /\ processes' = r.o.processes
           /\ port_config' = r.pc
           /\ config_files' = r.files
           /\ bridge' = r.bridge
           /\ call' = [op |-> "create_agent", role |-> role,
                       managed |-> role \in DOMAIN agents, env |-> env,
                       raised |-> r.raised]
           /\ UNCHANGED <<varsLater, varsMgr, github_sync, issues, effects, varsAgent, varsProject>>

StartAgent ==
    \E role \in OrchRoles, env \in StartEnvs :
        LET r == start_agent([agents |-> agents, processes |-> processes], role, env)
        IN /\ agents' = r.o.agents
           /\ processes' = r.o.processes
           /\ call' = [op |-> "start_agent", role |-> role, raised |-> r.raised]
           /\ UNCHANGED <<varsLater, varsMgr, config_files, bridge, github_sync, issues, effects,
                          varsPort, varsAgent, varsProject>>

StopAgent ==
    \E role \in OrchRoles, exits_in_time \in BOOLEAN :
        LET r == stop_agent([agents |-> agents, processes |-> processes], role,
                            exits_in_time)
        IN /\ agents' = r.o.agents
           /\ processes' = r.o.processes
           /\ call' = [op |-> "stop_agent", role |-> role, signals |-> r.signals]
           /\ UNCHANGED <<varsLater, varsMgr, config_files, bridge, github_sync, issues, effects,
                          varsPort, varsAgent, varsProject>>

OrchNext == CreateAgent \/ StartAgent \/ StopAgent

\* The orchestrator as tests/unit/test_orchestrator.py sets it up for
\* assign_github_tasks: agents put into the map directly (create_agent cannot
\* register one, see C6), a tracker with issues, with or without a bridge.
AssignInit ==
    /\ agents \in UNION {[rs -> {[port |-> 8301, pid |-> None, status |-> st,
                                  env_file |-> <<"test.env">>] :
                                 st \in {"running", "stopped"}}] :
                         rs \in {{"backend"}, {"backend", "frontend"}}}
    /\ processes = EmptyMap
    /\ config_files = {}
    /\ bridge \in [present : BOOLEAN, registry : {{}}]
    /\ github_sync \in BOOLEAN
    /\ issues \in {iss \in [IssueNumbers -> [labels : {{"backend"}, {"backend", "frontend"}},
                                              assignee : {None, "octocat"},
                                              state : {"open"}]] :
                      iss[1].labels = {"backend"}}
    /\ effects = NoEffects

AssignGithubTasks ==
    \E fetch \in [AssignRoles -> {"ok", "GithubException"}] :
        \E outs \in [Visited(agents, issues, fetch) -> TaskOutcomes] :
            /\ effects' = assign_github_tasks(agents, issues, bridge, github_sync,
                                              fetch, outs)
            /\ call' = [op |-> "assign_github_tasks", fetch |-> fetch]
            /\ UNCHANGED <<varsLater, varsMgr, agents, processes, config_files, bridge, github_sync,
                           issues, varsPort, varsAgent, varsProject>>

\* Somebody assigns, unassigns or closes an issue on the tracker.
GithubChange ==
    \E n \in IssueNumbers, who \in {None, "octocat"}, st \in {"open", "closed"} :
        /\ issues' = [issues EXCEPT ![n].assignee = who, ![n].state = st]
        /\ call' = [op |-> "github_change"]
        /\ UNCHANGED <<varsLater, varsMgr, agents, processes, config_files, bridge, github_sync,
                       effects, varsPort, varsAgent, varsProject>>

AssignNext == AssignGithubTasks \/ GithubChange

(***************************************************************************)
(* core/agent_manager.py: AgentManager                                     *)
(*                                                                         *)
(* A tracked process is [pid, popen]: popen says whether the manager holds *)
(* the Popen object or only the pid read back from the PID file.  The host *)
(* is its process table, pid -> [cmdline, readable]; the ports other       *)
(* programs have bound are an input of each call.  Writing the two files   *)
(* is taken to succeed.                                                    *)
(***************************************************************************)
\* The pids the host hands out.
HostPids == {1, 2, 3}

\* Bound: the manager scans PortSpan ports (8301-8399 in the code).
PortSpan == 2

\* Bound: unrelated processes alive on the host at one time.
MaxForeign == 1

\* _find_available_port(start_port=8301, ...).
StartPort == 8301

EndPort == StartPort + PortSpan - 1

\* app_config.projects, and a project id that is not registered.
Projects == {"p1", "p2"}

UnknownProject == "p9"

\* The synthetic agent id of the chat bridge.
BridgeId == "telegram_bridge"

\* What ProjectConfig.load() can return for a registered project: None, or a
\* configuration with its active agents (in file order) and its telegram flag.
\* p1 has up to two agents and may enable the chat bridge; p2 has no agent yet.
LoadedConfigs(project_id) ==
    IF project_id = "p2"
    THEN {[ok |-> TRUE, active_agents |-> << >>, telegram |-> FALSE]}
    ELSE {[ok |-> FALSE, active_agents |-> << >>, telegram |-> FALSE]}
         \cup {[ok |-> TRUE, active_agents |-> ids, telegram |-> FALSE] :
                 ids \in {<< >>, <<"a1">>, <<"a1", "a2">>}}
         \cup {[ok |-> TRUE, active_agents |-> <<"a1">>, telegram |-> TRUE]}

\* Command lines, each argument a path split into its components.
AgentCmdline == << <<"python">>, <<"agents", "run_project_agent.py">> >>

BridgeCmdline == << <<"python">>, <<"telegram_bridge", "start_project_bridge.py">> >>

OtherCmdline == << <<"python">>, <<"manage.py">> >>

LauncherScripts == {"run_project_agent.py", "start_project_bridge.py"}

\* Unrelated processes: one whose cmdline() can be read, one for which it
\* raises AccessDenied.
ForeignProcs ==
    {[cmdline |-> OtherCmdline, readable |-> r] : r \in BOOLEAN}

SpawnOutcomes == {"ok", "OSError"}

\* terminate() then wait(5) then kill(): the process ends, or terminate() is
\* refused.
TermOutcomes == {"ends", "denied"}

\* The scanned ports that other programs have bound when a call is made: none,
\* or the first one.
BusySets == {{}, {StartPort}}

Put(f, k, v) == [x \in DOMAIN f \cup {k} |-> IF x = k THEN v ELSE f[x]]

\* self, as one record.
Manager ==
    [running_processes |-> running_processes,
     allocated_ports |-> allocated_ports,
     pid_file |-> pid_file,
     port_file |-> port_file]

\* A mutation of _is_process_running that skips the command-line check.
is_process_running_any_cmdline(procs, pid) == pid \in DOMAIN procs

\* _is_process_running: False when there is no such process; otherwise
\* whether some argument names a launcher script, and True when cmdline()
\* raises.
is_process_running(procs, pid) ==
    IF pid \notin DOMAIN procs THEN FALSE
    ELSE IF ~procs[pid].readable THEN TRUE
    ELSE \E i \in DOMAIN procs[pid].cmdline :
            \E script \in LauncherScripts :
                script \in Range(procs[pid].cmdline[i])

\* _load_pid_file: the recorded pids that pass the check, tracked as ints.
load_pid_file(file, procs) ==
    LET live(p) == {a \in DOMAIN file[p] : is_process_running(procs, file[p][a])}
    IN  [p \in {q \in DOMAIN file : live(q) # {}} |->
            [a \in live(p) |-> [pid |-> file[p][a], popen |-> FALSE]]]

\* _save_pid_file: the pid of every tracked process.
save_pid_file(rp) ==
    [p \in DOMAIN rp |-> [a \in DOMAIN rp[p] |-> rp[p][a].pid]]

\* The pids of children the manager still holds a Popen for: the host does
\* not hand them out again.
HeldPids(rp) ==
    UNION {{rp[p][a].pid : a \in {b \in DOMAIN rp[p] : rp[p][b].popen}} :
            p \in DOMAIN rp}

\* The pid the host gives the next process; 0 when the pool is used up.
FreePid(procs, held) ==
    LET free == {n \in HostPids : n \notin DOMAIN procs /\ n \notin held}
    IN  IF free = {} THEN 0
        ELSE CHOOSE n \in free : \A k \in free : n <= k

UsedPorts(ap) == UNION {Range(ap[p]) : p \in DOMAIN ap}

\* The scan of _find_available_port; 0 stands for the RuntimeError.
RECURSIVE ScanPorts(_, _, _)
ScanPorts(port, used, busy) ==
    IF port > EndPort THEN 0
    ELSE IF port \in used \/ port \in busy THEN ScanPorts(port + 1, used, busy)
    ELSE port

\* A mutation of _find_available_port that forgets the ports already recorded.
find_available_port_ignoring_used(ap, busy) == ScanPorts(StartPort, {}, busy)

find_available_port(ap, busy) == ScanPorts(StartPort, UsedPorts(ap), busy)

\* One pass of the loop in stop_project_agents: the result recorded for the
\* agent and whether its process is gone afterwards.
StopOne(process, procs, term) ==
    IF ~process.popen
    THEN \* a pid: psutil.Process(pid), terminate(), wait(5), kill()
         IF process.pid \notin DOMAIN procs
         THEN [result |-> "stopped", gone |-> FALSE]
         ELSE IF term = "denied"
         THEN [result |-> "failed: AccessDenied", gone |-> FALSE]
         ELSE [result |-> "stopped", gone |-> TRUE]
    ELSE \* a Popen: terminate(), wait(5), kill(), wait()
         IF process.pid \notin DOMAIN procs
         THEN [result |-> "stopped", gone |-> FALSE]
         ELSE IF term = "denied"
         THEN [result |-> "failed: PermissionError", gone |-> FALSE]
         ELSE [result |-> "stopped", gone |-> TRUE]

NoAgentsRunning == [k \in {"status"} |-> "no agents running"]

stop_project_agents(m, procs, project_id, terms) ==
    IF project_id \notin DOMAIN m.running_processes
    THEN [m |-> m, procs |-> procs, results |-> NoAgentsRunning]
    ELSE LET tracked == m.running_processes[project_id]
             one(a) == StopOne(tracked[a], procs,
                               IF a \in DOMAIN terms THEN terms[a] ELSE "ends")
             killed == {tracked[a].pid : a \in {b \in DOMAIN tracked : one(b).gone}}
             rp == Without(m.running_processes, project_id)
             ap == Without(m.allocated_ports, project_id)
         IN  [m |-> [running_processes |-> rp,
                     allocated_ports |-> ap,
                     pid_file |-> save_pid_file(rp),
                     port_file |-> ap],
              procs |-> [n \in DOMAIN procs \ killed |-> procs[n]],
              results |-> [a \in DOMAIN tracked |-> one(a).result]]

\* The port step of the start loop: reuse the recorded port if it binds,
\* else _find_available_port().
AllocateAgentPort(ap, busy, project_id, id) ==
    LET ap0 == IF project_id \in DOMAIN ap THEN ap
               ELSE Put(ap, project_id, EmptyMap)
        found == find_available_port(ap0, busy)
    IN  IF id \in DOMAIN ap0[project_id] /\ ap0[project_id][id] \notin busy
        THEN [ap |-> ap0, raised |-> FALSE]
        ELSE IF found = 0
        THEN [ap |-> ap0, raised |-> TRUE]
        ELSE [ap |-> Put(ap0, project_id, Put(ap0[project_id], id, found)),
              raised |-> FALSE]

\* A mutation of the start loop that gives up at the first failure.
RECURSIVE StartLoopAborting(_, _, _, _, _)
StartLoopAborting(st, project_id, ids, spawns, busy) ==
    IF ids = << >> THEN st
    ELSE LET id == Head(ids)
             port == AllocateAgentPort(st.ap, busy, project_id, id)
             pid == FreePid(st.procs, HeldPids(st.rp))
             ok == ~port.raised /\ spawns[id] = "ok"
         IN  IF ~ok THEN st
             ELSE StartLoopAborting(
                 [st EXCEPT !.ap = port.ap,
                    !.rp = Put(@, project_id,
                               Put(@[project_id], id, [pid |-> pid, popen |-> TRUE])),
                    !.procs = Put(@, pid, [cmdline |-> AgentCmdline, readable |-> TRUE]),
                    !.results = Put(@, id, "started"),
                    !.nopid = @ \/ pid = 0],
                 project_id, Tail(ids), spawns, busy)

\* The loop of start_project_agents over project_config.active_agents.
RECURSIVE StartLoop(_, _, _, _, _)
StartLoop(st, project_id, ids, spawns, busy) ==
    IF ids = << >> THEN st
    ELSE LET id == Head(ids)
             port == AllocateAgentPort(st.ap, busy, project_id, id)
             pid == FreePid(st.procs, HeldPids(st.rp))
             ok == ~port.raised /\ spawns[id] = "ok"
             st1 == IF ok
                    THEN [st EXCEPT !.ap = port.ap,
                            !.rp = Put(@, project_id,
                                       Put(@[project_id], id,
                                           [pid |-> pid, popen |-> TRUE])),
                            !.procs = Put(@, pid, [cmdline |-> AgentCmdline,
                                                   readable |-> TRUE]),
                            !.results = Put(@, id, "started"),
                            !.nopid = @ \/ pid = 0]
                    ELSE [st EXCEPT !.ap = port.ap,
                            !.results = Put(@, id,
                                IF port.raised THEN "failed: No available ports"
                                ELSE "failed: OSError")]
         IN  StartLoop(st1, project_id, Tail(ids), spawns, busy)

\* _start_telegram_bridge, and the result start_project_agents records.
StartBridge(st, project_id, spawns) ==
    LET pid == FreePid(st.procs, HeldPids(st.rp))
    IN  IF spawns[BridgeId] = "ok"
        THEN [st EXCEPT
                !.rp = Put(@, project_id,
                           Put(@[project_id], BridgeId, [pid |-> pid, popen |-> TRUE])),
                !.procs = Put(@, pid, [cmdline |-> BridgeCmdline, readable |-> TRUE]),
                !.results = Put(@, BridgeId, "started"),
                !.nopid = @ \/ pid = 0]
        ELSE [st EXCEPT !.results = Put(@, BridgeId, "failed: OSError")]

start_project_agents(m, procs, busy, project_id, cfg, spawns, terms) ==
    IF project_id \notin Projects
    THEN [m |-> m, procs |-> procs, raised |-> "ValueError",
          results |-> EmptyMap, nopid |-> FALSE]
    ELSE LET stopped == stop_project_agents(m, procs, project_id, terms)
             st0 == [rp |-> Put(stopped.m.running_processes, project_id, EmptyMap),
                     ap |-> stopped.m.allocated_ports,
                     procs |-> stopped.procs,
                     results |-> EmptyMap,
                     nopid |-> FALSE]
             st1 == StartLoop(st0, project_id, cfg.active_agents, spawns, busy)
             st2 == IF cfg.telegram THEN StartBridge(st1, project_id, spawns)
                    ELSE st1
         IN  IF ~cfg.ok
             THEN \* project_config is None: AttributeError at the loop
                  [m |-> [stopped.m EXCEPT !.running_processes = st0.rp],
                   procs |-> stopped.procs, raised |-> "AttributeError",
                   results |-> EmptyMap, nopid |-> FALSE]
             ELSE [m |-> [running_processes |-> st2.rp,
                          allocated_ports |-> st2.ap,
                          pid_file |-> save_pid_file(st2.rp),
                          port_file |-> st2.ap],
                   procs |-> st2.procs, raised |-> None,
                   results |-> st2.results, nopid |-> st2.nopid]

\* A host with nothing running and a home directory without the two files.
MgrInit ==
    /\ running_processes = EmptyMap
    /\ allocated_ports = EmptyMap
    /\ pid_file = EmptyMap
    /\ port_file = EmptyMap
    /\ os_procs = EmptyMap

MgrIdle == MgrInit

TrackedIds(project_id) ==
    IF project_id \in DOMAIN running_processes
    THEN DOMAIN running_processes[project_id] ELSE {}

\* The tracked agents of the project whose pid is a process on the host.
AliveIds(project_id) ==
    {a \in TrackedIds(project_id) :
        running_processes[project_id][a].pid \in DOMAIN os_procs}

ConfigIds(cfg) ==
    Range(cfg.active_agents) \cup (IF cfg.telegram THEN {BridgeId} ELSE {})

\* AgentManager.__init__ in a new server process: both files are loaded.
ManagerRestart ==
    /\ running_processes' = load_pid_file(pid_file, os_procs)
    /\ allocated_ports' = port_file
    /\ call' = [op |-> "load"]
    /\ UNCHANGED <<pid_file, port_file, os_procs>>
    /\ UNCHANGED <<varsLater, varsPort, varsAgent, varsProject, varsOrch>>

StartProjectAgents ==
    \E project_id \in Projects \cup {UnknownProject} :
      \E cfg \in LoadedConfigs(project_id) :
       \E spawns \in [ConfigIds(cfg) -> SpawnOutcomes],
          terms \in [AliveIds(project_id) -> TermOutcomes],
          busy \in BusySets :
        \E r \in {start_project_agents(Manager, os_procs, busy, project_id,
                                      cfg, spawns, terms)} :
            /\ ~r.nopid
            /\ running_processes' = r.m.running_processes
            /\ allocated_ports' = r.m.allocated_ports
            /\ pid_file' = r.m.pid_file
            /\ port_file' = r.m.port_file
            /\ os_procs' = r.procs
            /\ call' = [op |-> "start_project_agents", project_id |-> project_id,
                        active_agents |-> cfg.active_agents,
                        raised |-> r.raised, results |-> r.results]
            /\ UNCHANGED <<varsLater, varsPort, varsAgent, varsProject, varsOrch>>

\* start_project_agents again, the call record also keeping what the port
\* probes met (busy) and whether a terminate() of the stop step was refused.
StartProjectAgentsProbed ==
    \E project_id \in Projects :
      \E cfg \in {c \in LoadedConfigs(project_id) : c.ok} :
       \E spawns \in [ConfigIds(cfg) -> SpawnOutcomes],
          terms \in [AliveIds(project_id) -> TermOutcomes],
          busy \in BusySets :
        \E r \in {start_project_agents(Manager, os_procs, busy, project_id,
                                      cfg, spawns, terms)} :
            /\ ~r.nopid
            /\ running_processes' = r.m.running_processes
            /\ allocated_ports' = r.m.allocated_ports
            /\ pid_file' = r.m.pid_file
            /\ port_file' = r.m.port_file
            /\ os_procs' = r.procs
            /\ call' = [op |-> "start_project_agents", project_id |-> project_id,
                        active_agents |-> cfg.active_agents,
                        raised |-> r.raised, results |-> r.results,
                        busy |-> busy,
                        refused |-> \E a \in DOMAIN terms : terms[a] = "denied"]
            /\ UNCHANGED <<varsLater, varsPort, varsAgent, varsProject, varsOrch>>

StopProjectAgents ==
    \E project_id \in Projects :
      \E terms \in [AliveIds(project_id) -> TermOutcomes] :
        \E r \in {stop_project_agents(Manager, os_procs, project_id, terms)} :
            /\ running_processes' = r.m.running_processes
            /\ allocated_ports' = r.m.allocated_ports
            /\ pid_file' = r.m.pid_file
            /\ port_file' = r.m.port_file
            /\ os_procs' = r.procs
            /\ call' = [op |-> "stop_project_agents", project_id |-> project_id,
                        tracked |-> TrackedIds(project_id),
                        results |-> r.results]
            /\ UNCHANGED <<varsLater, varsPort, varsAgent, varsProject, varsOrch>>

\* A process on the host exits.
ProcessExits ==
    \E pid \in DOMAIN os_procs :
        /\ os_procs' = Without(os_procs, pid)
        /\ call' = [op |-> "host"]
        /\ UNCHANGED <<running_processes, allocated_ports, pid_file, port_file>>
        /\ UNCHANGED <<varsLater, varsPort, varsAgent, varsProject, varsOrch>>

\* An unrelated process starts under a pid nobody holds.
ForeignStarts ==
    \E pid \in HostPids, proc \in ForeignProcs :
        /\ pid \notin DOMAIN os_procs
        /\ pid \notin HeldPids(running_processes)
        /\ Cardinality({n \in DOMAIN os_procs :
                            os_procs[n].cmdline = OtherCmdline}) < MaxForeign
        /\ os_procs' = Put(os_procs, pid, proc)
        /\ call' = [op |-> "host"]
        /\ UNCHANGED <<running_processes, allocated_ports, pid_file, port_file>>
        /\ UNCHANGED <<varsLater, varsPort, varsAgent, varsProject, varsOrch>>

MgrNext ==
    \/ ManagerRestart
    \/ StartProjectAgents
    \/ StopProjectAgents
    \/ ProcessExits

\* What a new server process finds after the host has moved on: the two
\* files as an earlier manager saved them for p1's agents, and a process
\* table in which any pid may be gone, still an agent, or taken by another
\* program.
SavedPidFiles ==
    {EmptyMap}
    \cup {[p \in {"p1"} |-> f] :
            f \in {g \in [{"a1"} -> HostPids] \cup [{"a1", "a2"} -> HostPids] :
                      \A a, b \in DOMAIN g : a # b => g[a] # g[b]}}

SavedPortFile(pids) ==
    [p \in DOMAIN pids |->
        [a \in DOMAIN pids[p] |-> IF a = "a1" THEN StartPort ELSE StartPort + 1]]

HostTables ==
    LET procs == {[cmdline |-> AgentCmdline, readable |-> TRUE],
                  [cmdline |-> BridgeCmdline, readable |-> TRUE]}
                 \cup ForeignProcs
    IN  {t \in UNION {[S -> procs] : S \in SUBSET HostPids} :
            Cardinality({n \in DOMAIN t : t[n].cmdline = OtherCmdline})
                <= MaxForeign}

LivenessInit ==
    /\ running_processes = EmptyMap
    /\ allocated_ports = EmptyMap
    /\ pid_file \in SavedPidFiles
    /\ port_file = SavedPortFile(pid_file)
    /\ os_procs \in HostTables

LivenessNext ==
    \/ ManagerRestart
    \/ ProcessExits
    \/ ForeignStarts

(***************************************************************************)
(* web/app_api.py: the single-agent start and stop endpoints, which work   *)
(* on the AgentManager's maps directly.                                    *)
(***************************************************************************)
\* time.sleep(0.5) between the two signals of stop_single_agent, in ms.
EndpointWaitMs == 500

\* wait(timeout=5) of the other stop paths, in ms.
GracefulWaitMs == 5000

\* How long a process takes to exit once it has received SIGTERM, in ms.
ExitDelays == {100, 2000, 9000}

\* start_single_agent.  status is the HTTP status of the answer.
start_single_agent(m, procs, busy, project_id, aid, cfg, spawns) ==
    LET port == AllocateAgentPort(m.allocated_ports, busy, project_id, aid)
        pid == FreePid(procs, HeldPids(m.running_processes))
        rp0 == IF project_id \in DOMAIN m.running_processes
               THEN m.running_processes
               ELSE Put(m.running_processes, project_id, EmptyMap)
        rp1 == Put(rp0, project_id,
                   Put(rp0[project_id], aid, [pid |-> pid, popen |-> TRUE]))
        st1 == [rp |-> rp1, ap |-> port.ap,
                procs |-> Put(procs, pid, [cmdline |-> AgentCmdline, readable |-> TRUE]),
                results |-> EmptyMap, nopid |-> pid = 0]
        st2 == IF cfg.telegram /\ BridgeId \notin DOMAIN rp1[project_id]
               THEN StartBridge(st1, project_id, spawns) ELSE st1
    IN  IF project_id \notin Projects \/ ~cfg.ok
           \/ aid \notin Range(cfg.active_agents)
        THEN [m |-> m, procs |-> procs, status |-> 404, nopid |-> FALSE]
        ELSE IF port.raised
        THEN [m |-> [m EXCEPT !.allocated_ports = port.ap],
              procs |-> procs, status |-> 500, nopid |-> FALSE]
        ELSE IF spawns[aid] # "ok"
        THEN [m |-> [m EXCEPT !.allocated_ports = port.ap, !.port_file = port.ap],
              procs |-> procs, status |-> 500, nopid |-> FALSE]
        ELSE [m |-> [running_processes |-> st2.rp,
                     allocated_ports |-> port.ap,
                     pid_file |-> save_pid_file(rp1),
                     port_file |-> port.ap],
              procs |-> st2.procs, status |-> 200, nopid |-> st2.nopid]

\* The signals stop_single_agent sends to a process that needs delay ms to
\* exit after SIGTERM: terminate() / os.kill(pid, 15), sleep(0.5), then
\* kill() when poll() is None / os.kill(pid, 9) unless the pid is gone.
EndpointSignals(delay) ==
    IF delay <= EndpointWaitMs THEN <<"SIGTERM">> ELSE <<"SIGTERM", "SIGKILL">>

\* stop_single_agent
stop_single_agent(m, procs, project_id, aid, delay) ==
    LET tracked == m.running_processes[project_id]
        process == tracked[aid]
        rest == Without(tracked, aid)
        rp == IF rest = EmptyMap THEN Without(m.running_processes, project_id)
              ELSE Put(m.running_processes, project_id, rest)
        stopped == [m EXCEPT !.running_processes = rp, !.pid_file = save_pid_file(rp)]
    IN  IF project_id \notin DOMAIN m.running_processes
        THEN [m |-> m, procs |-> procs, status |-> 200,
              message |-> "Agent was not running", signals |-> << >>]
        ELSE IF aid \notin DOMAIN tracked
        THEN [m |-> m, procs |-> procs, status |-> 200,
              message |-> "Agent was not running", signals |-> << >>]
        ELSE IF process.pid \in DOMAIN procs
        THEN [m |-> stopped, procs |-> Without(procs, process.pid), status |-> 200,
              message |-> "Agent stopped successfully",
              signals |-> EndpointSignals(delay)]
        ELSE IF process.popen
        THEN \* terminate() and poll() of a child that has exited send nothing
             [m |-> stopped, procs |-> procs, status |-> 200,
              message |-> "Agent stopped successfully", signals |-> << >>]
        ELSE \* os.kill(pid, 15) raises ProcessLookupError
             [m |-> m, procs |-> procs, status |-> 500,
              message |-> "Failed to stop agent", signals |-> << >>]

\* The outcomes of the spawns and of the port probes that a single-agent
\* start can meet: none when the request is answered 404.
SingleStartInputs(cfg, aid) ==
    LET spawned == {aid} \cup (IF cfg.telegram THEN {BridgeId} ELSE {})
    IN  IF cfg.ok /\ aid \in Range(cfg.active_agents)
        THEN [spawns : [spawned -> SpawnOutcomes], busy : BusySets]
        ELSE {[spawns |-> [a \in spawned |-> "ok"], busy |-> {}]}

\* POST /projects/{project_id}/agents/{agent_id}/start
StartSingleAgent ==
    \E project_id \in Projects :
      \E cfg \in LoadedConfigs(project_id) :
       \E aid \in Range(cfg.active_agents) \cup {"a2"} :
        \E spawns \in {i.spawns : i \in SingleStartInputs(cfg, aid)},
           busy \in {i.busy : i \in SingleStartInputs(cfg, aid)} :
        \E r \in {start_single_agent(Manager, os_procs, busy, project_id,
                                    aid, cfg, spawns)} :
            /\ ~r.nopid
            /\ running_processes' = r.m.running_processes
            /\ allocated_ports' = r.m.allocated_ports
            /\ pid_file' = r.m.pid_file
            /\ port_file' = r.m.port_file
            /\ os_procs' = r.procs
            /\ call' = [op |-> "start_single_agent", status |-> r.status]
            /\ UNCHANGED <<varsLater, varsPort, varsAgent, varsProject, varsOrch>>

\* POST /projects/{project_id}/agents/{agent_id}/stop
StopSingleAgent ==
    \E project_id \in Projects, aid \in {"a1", "a2", BridgeId} :
      \E delay \in IF aid \in AliveIds(project_id) THEN ExitDelays ELSE {0} :
        \E r \in {stop_single_agent(Manager, os_procs, project_id, aid, delay)} :
            /\ running_processes' = r.m.running_processes
            /\ allocated_ports' = r.m.allocated_ports
            /\ pid_file' = r.m.pid_file
            /\ port_file' = r.m.port_file
            /\ os_procs' = r.procs
            /\ call' = [op |-> "stop_single_agent", status |-> r.status,
                        delay |-> delay, signals |-> r.signals,
                        still_tracked |->
                            /\ project_id \in DOMAIN r.m.running_processes
                            /\ aid \in DOMAIN r.m.running_processes[project_id]]
            /\ UNCHANGED <<varsLater, varsPort, varsAgent, varsProject, varsOrch>>

\* A str value held in a dict whose other values are dicts.
StrValue(s) == [str |-> s]

\* isinstance(a, dict) and a.get("running", False)
IsRunningEntry(a) ==
    "str" \notin DOMAIN a /\ "running" \in DOMAIN a /\ a.running

\* get_project_status, without the branch details fetched from the agent:
\* the dict returned, agent id -> {"running", "pid"}.
get_project_status(m, procs, project_id) ==
    IF project_id \notin DOMAIN m.running_processes
    THEN [k \in {"status"} |-> StrValue("no agents running")]
    ELSE LET tracked == m.running_processes[project_id]
         IN  [a \in DOMAIN tracked |->
                [running |-> IF tracked[a].popen
                             THEN tracked[a].pid \in DOMAIN procs   \* poll() is None
                             ELSE is_process_running(procs, tracked[a].pid),
                 pid |-> tracked[a].pid]]

\* get_all_projects_status
get_all_projects_status(m, procs) ==
    [project_id \in Projects |->
        LET project_status == get_project_status(m, procs, project_id)
        IN  [agents |-> project_status,
             total_agents |-> Cardinality(DOMAIN project_status),
             running_agents |->
                Cardinality({k \in DOMAIN project_status :
                                IsRunningEntry(project_status[k])})]]

\* GET /projects/status
GetAllProjectsStatus ==
    \E r \in {get_all_projects_status(Manager, os_procs)} :
        /\ call' = [op |-> "get_all_projects_status",
                    totals |-> [p \in Projects |->
                                  [total_agents |-> r[p].total_agents,
                                   running_agents |-> r[p].running_agents]]]
        /\ UNCHANGED varsMgr
        /\ UNCHANGED <<varsLater, varsPort, varsAgent, varsProject, varsOrch>>

\* Status requests between project starts, exits and server restarts.
StatusNext ==
    \/ GetAllProjectsStatus
    \/ StartProjectAgents
    \/ ProcessExits
    \/ ManagerRestart

\* Single agents started and stopped while processes exit by themselves and
\* the server is restarted (which leaves bare PIDs in the process map).
StopAgentNext ==
    \/ StartSingleAgent
    \/ StopSingleAgent
    \/ ProcessExits
    \/ ManagerRestart

\* Project starts and stops with the probes on record.
PortReuseNext ==
    \/ StartProjectAgentsProbed
    \/ StopProjectAgents
    \/ ProcessExits

EndpointNext ==
    \/ StartSingleAgent
    \/ StopSingleAgent
    \/ StartProjectAgents
    \/ StopProjectAgents

(***************************************************************************)
(* core/project_manager.py: ProjectManager                                 *)
(*                                                                         *)
(* One project, "p".  The project directory is a record: whether it        *)
(* exists, whether it holds project.config.json, the three                 *)
(* sub-directories and the reference clone, and which agents/{agent_id}    *)
(* directories hold a clone.  The contents of project.config.json are      *)
(* project_file.  git refuses to clone into a directory that is not empty; *)
(* shutil.rmtree(..., ignore_errors=True) is taken to remove the tree.     *)
(***************************************************************************)
ProjectId == "p"

NoProjectDir ==
    [dir |-> FALSE, config |-> FALSE, subdirs |-> FALSE, maestro |-> FALSE,
     workspaces |-> {}]

\* Where create_project can fail once the project directory exists.
CreateProjectSteps ==
    {"none", "save", "subdirs", "register", "clone", "git_config", "base_branch"}

\* Where create_agent can fail once it has a project configuration.
CreateAgentSteps ==
    {"none", "clone", "git_config", "checkout", "prompt", "register"}

\* f"agents/{agent_id}"
AgentWorkspace(id) == <<"agents", "/">> \o id

\* A mutation of create_agent that leaves the directory behind on failure.
create_agent_pm_keeps_dir(fs, registry, file, role, name, fail_at) ==
    LET id == agent_id(role, name)
        added == add_agent(file, role, name, AgentWorkspace(id))
    IN  IF ProjectId \notin registry \/ ~fs.config
        THEN [fs |-> fs, file |-> file, returned |-> <<None>>, raised |-> FALSE]
        ELSE IF id \in fs.workspaces \/ fail_at # "none"
        THEN [fs |-> [fs EXCEPT !.workspaces = @ \cup {id}], file |-> file,
              returned |-> <<None>>, raised |-> FALSE]
        ELSE [fs |-> [fs EXCEPT !.workspaces = @ \cup {id}], file |-> added.cfg,
              returned |-> added.returned, raised |-> FALSE]

\* ProjectManager.create_agent.  The result: the directory, the file, the
\* value returned (None on failure) and whether the call raised.
create_agent_pm(fs, registry, file, role, name, fail_at) ==
    LET id == agent_id(role, name)
        added == add_agent(file, role, name, AgentWorkspace(id))
    IN  IF ProjectId \notin registry \/ ~fs.config
        THEN \* get_project() returned None
             [fs |-> fs, file |-> file, returned |-> <<None>>, raised |-> FALSE]
        ELSE IF id \in fs.workspaces \/ fail_at # "none"
        THEN \* a step raised: shutil.rmtree(agent_workspace), return None
             [fs |-> [fs EXCEPT !.workspaces = @ \ {id}], file |-> file,
              returned |-> <<None>>, raised |-> FALSE]
        ELSE [fs |-> [fs EXCEPT !.workspaces = @ \cup {id}], file |-> added.cfg,
              returned |-> added.returned, raised |-> FALSE]

\* ProjectManager.create_project, for the project name that gives "p".
create_project(fs, registry, file, fail_at, initial_agents, agent_fail_at) ==
    LET made == [fs EXCEPT !.dir = TRUE]
        saved == [made EXCEPT !.config = TRUE]
        subs == [saved EXCEPT !.subdirs = TRUE]
        registered == registry \cup {ProjectId}
        cloned == [subs EXCEPT !.maestro = TRUE]
        first == create_agent_pm(cloned, registered, ProjectConfigNew,
                                 initial_agents[1].role, initial_agents[1].name,
                                 agent_fail_at)
    IN  IF fail_at = "save"
        THEN [fs |-> made, registry |-> registry, file |-> file,
              raised |-> TRUE, created |-> << >>]
        ELSE IF fail_at = "subdirs"
        THEN [fs |-> saved, registry |-> registry, file |-> ProjectConfigNew,
              raised |-> TRUE, created |-> << >>]
        ELSE IF fail_at = "register"
        THEN [fs |-> subs, registry |-> registered, file |-> ProjectConfigNew,
              raised |-> TRUE, created |-> << >>]
        ELSE IF fs.maestro \/ fail_at \in {"clone", "git_config", "base_branch"}
        THEN \* _initialize_maestro raised: shutil.rmtree(project_path); raise
             [fs |-> NoProjectDir, registry |-> registered,
              file |-> ProjectConfigNew, raised |-> TRUE, created |-> << >>]
        ELSE IF initial_agents = << >>
        THEN [fs |-> cloned, registry |-> registered, file |-> ProjectConfigNew,
              raised |-> FALSE, created |-> << >>]
        ELSE [fs |-> first.fs, registry |-> registered, file |-> first.file,
              raised |-> FALSE, created |-> <<first.returned>>]

PMInit ==
    /\ proj_fs = NoProjectDir
    /\ app_registry = {}

PMIdle == PMInit

InitialAgents ==
    {<< >>} \cup {<<[role |-> role, name |-> name]>> :
                    role \in ProjectRoles, name \in AgentNames}

CreateProject ==
    \E fail_at \in CreateProjectSteps, initial_agents \in InitialAgents,
       agent_fail_at \in CreateAgentSteps :
      \E r \in {create_project(proj_fs, app_registry, project_file, fail_at,
                               initial_agents, agent_fail_at)} :
        /\ proj_fs' = r.fs
        /\ app_registry' = r.registry
        /\ project_file' = r.file
        /\ call' = [op |-> "create_project", raised |-> r.raised,
                    created |-> r.created]
        /\ UNCHANGED <<project_config, varsTg, varsSb, varsMgr, varsPA, varsPort, varsAgent, varsOrch>>

CreateAgentPM ==
    \E role \in ProjectRoles, name \in AgentNames, fail_at \in CreateAgentSteps :
      \E r \in {create_agent_pm(proj_fs, app_registry, project_file, role, name,
                                fail_at)} :
        /\ Cardinality(DOMAIN r.file.active_agents) <= MaxAgents
        /\ Cardinality(DOMAIN r.file.agent_configurations) <= MaxConfigured
        /\ proj_fs' = r.fs
        /\ app_registry' = app_registry
        /\ project_file' = r.file
        /\ call' = [op |-> "create_agent", role |-> role, name |-> name,
                    returned |-> r.returned, raised |-> r.raised,
                    registered |-> DOMAIN project_file.active_agents,
                    dirs |-> proj_fs.workspaces]
        /\ UNCHANGED <<project_config, varsTg, varsSb, varsMgr, varsPA, varsPort, varsAgent, varsOrch>>

PMNext == CreateProject \/ CreateAgentPM

(***************************************************************************)
(* core/telegram_bridge.py: TelegramBridge (the free-text handler)         *)
(* telegram_bridge/bridge.py: TelegramBridge (relay of an agent's answer)  *)
(*                                                                         *)
(* A chat message is a sequence of characters.  An agent's answer is       *)
(* followed by the lengths of its paragraphs (the pieces between "\n\n"),  *)
(* which is all the splitting code looks at besides the separator.         *)
(***************************************************************************)
\* Bound: length of a chat message.
MaxMsgLen == 6

\* Bound: paragraphs of an agent's answer.
MaxParagraphs == 3

\* if len(reply) > 4000 / max_length = 4000
SplitAt == 4000

\* "Telegram has a 4096 character limit for messages"
TelegramLimit == 4096

WordChars == {"b", "B"}

SpaceChars == {" ", "\n"}

\* The characters chat messages are drawn from.
MsgChars == {"@", "b"} \cup SpaceChars

ChatMessages == UNION {[1..n -> MsgChars] : n \in 0..MaxMsgLen}

\* Paragraph lengths around the splitting threshold and the platform ceiling.
ParagraphLens == {0, 10, SplitAt - 12, TelegramLimit + 1}

\* Lengths of answers without a paragraph break, around the threshold of the
\* core bridge (whose reply adds a header of 17 characters for role "b").
ResponseLens == {0, 10, SplitAt - 17, SplitAt - 16, TelegramLimit + 1, 2 * SplitAt}

AgentResponses == UNION {[1..n -> ParagraphLens] : n \in 1..MaxParagraphs}

\* len(text) of a text given by its paragraphs.
TextLen(paragraphs) == SumSeq(paragraphs) + 2 * (Len(paragraphs) - 1)

\* str.lower() / str.upper()
lower(s) == [i \in 1..Len(s) |-> IF s[i] = "B" THEN "b" ELSE s[i]]

upper(s) == [i \in 1..Len(s) |-> IF s[i] = "b" THEN "B" ELSE s[i]]

\* The first index from i on whose character is not in S (Len(s) + 1 if none).
RECURSIVE RunEnd(_, _, _)
RunEnd(s, i, S) ==
    IF i > Len(s) \/ s[i] \notin S THEN i ELSE RunEnd(s, i + 1, S)

\* re.match(r'@(\w+)\s+(.*)', message): anchored at the start, \w+ and \s+
\* greedy, and '.' does not match a newline.
re_match(message) ==
    LET w_end == RunEnd(message, 2, WordChars)
        s_end == RunEnd(message, w_end, SpaceChars)
        l_end == RunEnd(message, s_end, MsgChars \ {"\n"})
    IN
    IF Len(message) = 0 \/ message[1] # "@" \/ w_end = 2 \/ s_end = w_end
    THEN [matched |-> FALSE]
    ELSE [matched |-> TRUE,
          group1 |-> SubSeq(message, 2, w_end - 1),
          group2 |-> SubSeq(message, s_end, l_end - 1)]

\* The roles an agent can be registered under.
BridgeRoles == {<<"b">>, <<"b", "b">>}

\* AgentRegistry.get_agent_url
get_agent_url(reg, role) ==
    IF role \in DOMAIN reg THEN reg[role].url ELSE None

\* What self.client.post(f"{agent_url}/ask", ...) can do.
AskOutcomes ==
    {[kind |-> "raise"], [kind |-> "response", status_code |-> 500]} \cup
    [kind : {"response"}, status_code : {200},
     response : {<<n>> : n \in ResponseLens}]

\* f"**{role.upper()}** responds:\n\n{agent_response}"
RespondsText == <<"*", "*", " ", "r", "e", "s", "p", "o", "n", "d", "s", ":", "\n", "\n">>

ReplyText(role, agent_response) ==
    [kind |-> "responds", role |-> upper(role), response |-> agent_response,
     len |-> 2 + Len(role) + Len(RespondsText) + TextLen(agent_response)]

\* A chat message that is the characters from..to-1 of a text.
Whole(text) == [text |-> text, from |-> 0, to |-> text.len]

\* A chat message with one of the fixed error texts.
Notice(kind, role) == [text |-> [kind |-> kind, role |-> role]]

\* [reply[i:i+4000] for i in range(0, len(reply), 4000)]
Slices(text) ==
    [k \in 1..((text.len + SplitAt - 1) \div SplitAt) |->
        [text |-> text, from |-> (k - 1) * SplitAt,
         to |-> IF k * SplitAt < text.len THEN k * SplitAt ELSE text.len]]

\* TelegramBridge._handle_message: the /ask calls made and the replies sent.
handle_message(reg, message, outcome) ==
    LET match == re_match(message)
        role == lower(match.group1)
        agent_url == get_agent_url(reg, role)
        reply == ReplyText(role, outcome.response)
        posted == <<[url |-> <<agent_url, "/ask">>, message |-> match.group2]>>
    IN  IF ~match.matched
        THEN [posts |-> << >>, replies |-> << >>]
        ELSE IF agent_url = None
        THEN [posts |-> << >>,
              replies |-> <<Notice("no agent found", role)>>]
        ELSE IF outcome.kind = "raise"
        THEN [posts |-> posted,
              replies |-> <<Notice("error communicating", role)>>]
        ELSE IF outcome.status_code # 200
        THEN [posts |-> posted,
              replies |-> <<Notice("error from agent", role)>>]
        ELSE IF reply.len > SplitAt
        THEN [posts |-> posted, replies |-> Slices(reply)]
        ELSE [posts |-> posted, replies |-> <<Whole(reply)>>]

\* telegram_bridge/bridge.py, send_message: the loop over text.split('\n\n').
\* current is None while current_part is the empty string of line 162 (an
\* empty current_part is also what an empty first paragraph leaves).
RECURSIVE PackParagraphs(_, _, _)
PackParagraphs(paragraphs, current, parts) ==
    IF paragraphs = << >>
    THEN IF current > 0 THEN Append(parts, current) ELSE parts
    ELSE LET paragraph == Head(paragraphs) IN
         IF current + paragraph + 2 <= SplitAt
         THEN PackParagraphs(Tail(paragraphs),
                             IF current > 0 THEN current + 2 + paragraph ELSE paragraph,
                             parts)
         ELSE PackParagraphs(Tail(paragraphs), paragraph,
                             IF current > 0 THEN Append(parts, current) ELSE parts)

\* len(str(n))
Digits(n) == IF n < 10 THEN 1 ELSE 2

\* len(f"\n\n[{i+1}/{len(parts)}]")
SuffixLen(i, n) == 2 + 1 + Digits(i) + 1 + Digits(n) + 1

\* TelegramBridge.send_message (bridge.py): the lengths of the messages handed
\* to bot.send_message, in order.
send_message(text) ==
    IF TextLen(text) <= SplitAt
    THEN <<TextLen(text)>>
    ELSE LET parts == PackParagraphs(text, 0, << >>) IN
         [i \in 1..Len(parts) |->
            parts[i] + (IF Len(parts) > 1 THEN SuffixLen(i, Len(parts)) ELSE 0)]

\* What self.session.post(agent_url, json=payload) can do.
PostOutcomes ==
    {[kind |-> "ClientError"], [kind |-> "response", status |-> 500]} \cup
    [kind : {"response"}, status : {200}, response : AgentResponses]

\* The text sent for status 500 (X stands for the cross-mark character).
NotRespondingText ==
    <<"X", " ", "A", "g", "e", "n", "t", " ", "i", "s", " ", "n", "o", "t", " ",
      "r", "e", "s", "p", "o", "n", "d", "i", "n", "g", " ",
      "(", "s", "t", "a", "t", "u", "s", ":", " ", "5", "0", "0", ")">>

\* The text sent on aiohttp.ClientError.
NotConnectedText ==
    <<"X", " ", "C", "o", "u", "l", "d", " ", "n", "o", "t", " ",
      "c", "o", "n", "n", "e", "c", "t", " ", "t", "o", " ", "a", "g", "e", "n", "t">>

\* TelegramBridge.send_to_agent (bridge.py): what is sent to the chat.
send_to_agent(session, outcome) ==
    IF ~session
    THEN [relayed |-> FALSE, sent |-> << >>]
    ELSE IF outcome.kind = "ClientError"
    THEN [relayed |-> FALSE, sent |-> send_message(<<Len(NotConnectedText)>>)]
    ELSE IF outcome.status # 200
    THEN [relayed |-> FALSE, sent |-> send_message(<<Len(NotRespondingText)>>)]
    ELSE [relayed |-> TRUE, sent |-> send_message(outcome.response)]

TgInit ==
    /\ tg_registry = EmptyMap
    /\ tg_session = FALSE
    /\ tg_update \in ChatMessages

TgIdle ==
    /\ tg_registry = EmptyMap
    /\ tg_session = FALSE
    /\ tg_update = << >>

\* TelegramBridge.register_agent (core)
RegisterAgent ==
    \E role \in BridgeRoles, port \in {StartPort} :
        /\ tg_registry' = Put(tg_registry, role,
                              [url |-> <<"http://localhost:", port>>, port |-> port])
        /\ call' = [op |-> "register_agent", role |-> role]
        /\ UNCHANGED <<tg_session, tg_update, varsSb, varsPM, varsMgr, varsPA, varsPort, varsAgent, varsProject, varsOrch>>

\* TelegramBridge._handle_message (core), delivered the pending update.  The
\* outcome of the /ask request is drawn only when a request is made.
HandleMessage ==
    \E outcome \in IF handle_message(tg_registry, tg_update, [kind |-> "raise"]).posts = << >>
                   THEN {[kind |-> "raise"]} ELSE AskOutcomes :
        \E r \in {handle_message(tg_registry, tg_update, outcome)} :
            /\ call' = [op |-> "_handle_message", outcome |-> outcome,
                        posts |-> r.posts, replies |-> r.replies]
            /\ UNCHANGED <<varsTg, varsSb, varsPM, varsMgr, varsPA, varsPort, varsAgent, varsProject, varsOrch>>

\* TelegramBridge.start (bridge.py): self.session = aiohttp.ClientSession()
BridgeStart ==
    /\ tg_session' = TRUE
    /\ call' = [op |-> "start"]
    /\ UNCHANGED <<tg_registry, tg_update, varsSb, varsPM, varsMgr, varsPA, varsPort, varsAgent, varsProject, varsOrch>>

\* TelegramBridge.send_to_agent (bridge.py), with the send_message it calls.
SendToAgent ==
    \E outcome \in PostOutcomes :
        \E r \in {send_to_agent(tg_session, outcome)} :
            /\ call' = [op |-> "send_to_agent", outcome |-> outcome,
                        relayed |-> r.relayed, sent |-> r.sent]
            /\ UNCHANGED <<varsTg, varsSb, varsPM, varsMgr, varsPA, varsPort, varsAgent, varsProject, varsOrch>>

TgNext == RegisterAgent \/ HandleMessage

RelayNext == BridgeStart \/ SendToAgent

(***************************************************************************)
(* core/agent_tools.py: AgentTools (path validation and the file tools)    *)
(*                                                                         *)
(* A path is a sequence of components; an absolute path is counted from    *)
(* the root directory.  The symbolic links on disk map the absolute path   *)
(* of a link to its target, itself an absolute path without links, and     *)
(* never form a cycle, so Path.resolve() does not raise.                   *)
(***************************************************************************)
\* Bound: components of a requested path.
MaxPathLen == 3

\* AgentTools.workspace_path
WorkspacePath == <<"ws">>

PathNames == {"..", "ws", "ext", "out", "lnk", "f"}

RequestedPaths ==
    [absolute : BOOLEAN, parts : UNION {[1..n -> PathNames] : n \in 0..MaxPathLen}]

\* The symbolic links that may be on disk.
LinkTables ==
    {EmptyMap,
     <<"ws", "lnk">> :> <<"out">>,
     <<"ws", "lnk">> :> <<"ws", "f">>,
     <<"ws", "lnk">> :> <<"ext">>,
     <<"out", "lnk">> :> <<"ws">>,
     <<"ext", "lnk">> :> <<"out">>}

\* AgentTools.allowed_paths
AllowedPathSets == {{}, {<<"ext">>}}

\* os.path.realpath: components are taken left to right, ".." leaves the
\* directory reached so far, and a link is replaced by its target as soon as
\* it is reached.
RECURSIVE Walk(_, _, _)
Walk(links, reached, todo) ==
    IF todo = << >> THEN reached
    ELSE IF Head(todo) = ".."
    THEN Walk(links, SubSeq(reached, 1, Len(reached) - 1), Tail(todo))
    ELSE LET next == Append(reached, Head(todo)) IN
         Walk(links, IF next \in DOMAIN links THEN links[next] ELSE next, Tail(todo))

\* Path.resolve() of an absolute path.
resolve(links, path) == Walk(links, << >>, path)

\* Path.resolve() without the links: ".." is removed lexically.
normpath(path) == Walk(EmptyMap, << >>, path)

\* PurePath.relative_to succeeds: base is a leading part of path.
relative_to(path, base) ==
    Len(base) <= Len(path) /\ SubSeq(path, 1, Len(base)) = base

\* AgentTools._validate_path
\* Mutant: validation that normalises ".." but does not follow links.
validate_path_lexical(links, allowed_paths, path) ==
    LET full_path == IF path.absolute THEN path.parts ELSE WorkspacePath \o path.parts
        resolved_path == normpath(full_path)
        resolved_workspace == normpath(WorkspacePath)
    IN  IF relative_to(resolved_path, resolved_workspace)
        THEN [raised |-> None, path |-> resolved_path]
        ELSE IF \E allowed_path \in allowed_paths :
                    relative_to(resolved_path, normpath(allowed_path))
        THEN [raised |-> None, path |-> resolved_path]
        ELSE IF resolved_path \in allowed_paths
        THEN [raised |-> None, path |-> resolved_path]
        ELSE [raised |-> "ValueError: outside workspace", path |-> << >>]

validate_path(links, allowed_paths, path) ==
    LET full_path == IF path.absolute THEN path.parts ELSE WorkspacePath \o path.parts
        resolved_path == resolve(links, full_path)
        resolved_workspace == resolve(links, WorkspacePath)
    IN  IF relative_to(resolved_path, resolved_workspace)
        THEN [raised |-> None, path |-> resolved_path]
        ELSE IF \E allowed_path \in allowed_paths :
                    relative_to(resolved_path, resolve(links, allowed_path))
        THEN [raised |-> None, path |-> resolved_path]
        ELSE IF resolved_path \in allowed_paths
        THEN [raised |-> None, path |-> resolved_path]
        ELSE [raised |-> "ValueError: outside workspace", path |-> << >>]

\* The four file tools: each validates first and touches the file system
\* only with the path the validator returned.  touched is the set of files
\* or directories the call reads, writes or stats, where the operating system
\* follows the links of the path it is given.
FileTool(links, allowed_paths, path, exists, missing, other) ==
    LET v == validate_path(links, allowed_paths, path) IN
    IF v.raised # None
    THEN [raised |-> v.raised, touched |-> {}]
    ELSE IF ~exists
    THEN [raised |-> missing, touched |-> {resolve(links, v.path)}]
    ELSE [raised |-> other, touched |-> {resolve(links, v.path)}]

\* AgentTools.read_file
read_file(links, allowed_paths, path, exists) ==
    FileTool(links, allowed_paths, path, exists, "FileNotFoundError", None)

\* AgentTools.write_file (parent.mkdir and write_text do not need the file)
write_file(links, allowed_paths, path, exists) ==
    FileTool(links, allowed_paths, path, exists, None, None)

\* AgentTools.list_files (exists: the path is a directory)
list_files(links, allowed_paths, path, exists) ==
    FileTool(links, allowed_paths, path, exists, "ValueError: not a directory", None)

\* AgentTools.get_file_info ({"exists": False} when missing; relative_to the
\* workspace raises for a file under an extra allowed path)
get_file_info(links, allowed_paths, path, exists) ==
    FileTool(links, allowed_paths, path, exists, None,
             IF relative_to(validate_path(links, allowed_paths, path).path, WorkspacePath)
             THEN None ELSE "ValueError: not relative")

SbInit ==
    /\ sb_links \in LinkTables
    /\ sb_allowed \in AllowedPathSets
    /\ sb_path \in RequestedPaths

SbIdle ==
    /\ sb_links = EmptyMap
    /\ sb_allowed = {}
    /\ sb_path = [absolute |-> FALSE, parts |-> << >>]

ToolCall(op, r) ==
    /\ call' = [op |-> op, raised |-> r.raised, touched |-> r.touched]
    /\ UNCHANGED <<varsSb, varsTg, varsPM, varsMgr, varsPA, varsPort, varsAgent, varsProject, varsOrch>>

ReadFile ==
    \E exists \in BOOLEAN :
        ToolCall("read_file", read_file(sb_links, sb_allowed, sb_path, exists))

WriteFile ==
    \E exists \in BOOLEAN :
        ToolCall("write_file", write_file(sb_links, sb_allowed, sb_path, exists))

ListFiles ==
    \E exists \in BOOLEAN :
        ToolCall("list_files", list_files(sb_links, sb_allowed, sb_path, exists))

GetFileInfo ==
    \E exists \in BOOLEAN :
        ToolCall("get_file_info", get_file_info(sb_links, sb_allowed, sb_path, exists))

SbNext == ReadFile \/ WriteFile \/ ListFiles \/ GetFileInfo

(***************************************************************************)
(* agents/run_project_agent.py: ProjectAgent.process_message               *)
(*                                                                         *)
(* The model's response is given by the segments the brace scanner of      *)
(* lines 172-205 delimits: stretches of text and {"tool": ...} blocks with *)
(* balanced braces.  A block either parses and runs, parses and breaks the *)
(* formatting of its result, or does not parse (a trailing comma, an       *)
(* unquoted value).  The reply is the sequence of pieces joined by "\n".   *)
(***************************************************************************)
\* Bound: segments of a response.
MaxSegments == 3

\* Tool names execute_tool recognizes.
ToolNames == {"read_file", "write_file"}

BlockOutcomes == {"runs", "malformed", "format_error"}

\* text: a stretch with visible characters; blank: white space only.
Segments ==
    [kind : {"text", "blank"}] \cup
    [kind : {"block"}, tool : ToolNames, outcome : BlockOutcomes]

ModelResponses == UNION {[1..n -> Segments] : n \in 0..MaxSegments}

\* What one segment adds to final_response_lines: the stripped text, the
\* formatted result, the warning of the JSONDecodeError handler or the
\* notice of the generic handler; nothing for white space.
ReplyPiece(response, i) ==
    LET seg == response[i] IN
    IF seg.kind = "blank" THEN [kind |-> "nothing"]
    ELSE IF seg.kind = "text" THEN [kind |-> "text", at |-> i]
    ELSE IF seg.outcome = "runs" THEN [kind |-> "result", tool |-> seg.tool, at |-> i]
    ELSE IF seg.outcome = "malformed"
    THEN [kind |-> "warning", tool |-> seg.tool, at |-> i]
    ELSE [kind |-> "tool error", at |-> i]

\* The response returned as it came: its own segments, blocks included.
RawPiece(response, i) ==
    IF response[i].kind = "block"
    THEN [kind |-> "json", tool |-> response[i].tool, at |-> i]
    ELSE [kind |-> response[i].kind, at |-> i]

IsPiece(piece) == piece.kind # "nothing"

\* ProjectAgent.process_message, from the response of the base class on.
project_agent_process_message(response) ==
    LET tool_executed ==
            \E i \in 1..Len(response) :
                response[i].kind = "block" /\ response[i].outcome # "malformed"
        final_response_lines ==
            SelectSeq([i \in 1..Len(response) |-> ReplyPiece(response, i)], IsPiece)
    IN  IF ~tool_executed
        THEN [i \in 1..Len(response) |-> RawPiece(response, i)]
        ELSE final_response_lines

PAInit == pa_response \in ModelResponses

PAIdle == pa_response = << >>

\* POST /ask of a project agent: the reply made from the pending response.
ProjectAgentReply ==
    /\ call' = [op |-> "project_agent_process_message",
                reply |-> project_agent_process_message(pa_response)]
    /\ UNCHANGED <<varsPA, varsSb, varsTg, varsPM, varsMgr, varsPort, varsAgent,
                   varsProject, varsOrch>>

PANext == ProjectAgentReply

LaterIdle == PMIdle /\ TgIdle /\ SbIdle /\ PAIdle

(***************************************************************************)
(* Specifications: one per component, the other components left as         *)
(* constructed.                                                            *)
(***************************************************************************)
InitAgent == AgentInit /\ PortIdle /\ ProjectIdle /\ OrchIdle /\ MgrIdle /\ LaterIdle /\ call = NoCall

SpecAgentTasks == InitAgent /\ [][AgentTasksNext]_vars

SpecAgentMsgs == InitAgent /\ [][AgentMsgsNext]_vars

InitProject == ProjectInit /\ PortIdle /\ AgentIdle /\ OrchIdle /\ MgrIdle /\ LaterIdle /\ call = NoCall

SpecProject == InitProject /\ [][ProjectNext]_vars

InitOrch == OrchInit /\ PortIdle /\ AgentIdle /\ ProjectIdle /\ MgrIdle /\ LaterIdle /\ call = NoCall

SpecOrch == InitOrch /\ [][OrchNext]_vars

InitAssign == AssignInit /\ PortIdle /\ AgentIdle /\ ProjectIdle /\ MgrIdle /\ LaterIdle /\ call = NoCall

SpecAssign == InitAssign /\ [][AssignNext]_vars

InitPort == PortInit /\ AgentIdle /\ ProjectIdle /\ OrchIdle /\ MgrIdle /\ LaterIdle /\ call = NoCall

SpecPort == InitPort /\ [][PortNext]_vars

InitMgr ==
    MgrInit /\ PortIdle /\ AgentIdle /\ ProjectIdle /\ OrchIdle /\ LaterIdle /\ call = NoCall

SpecManager == InitMgr /\ [][MgrNext]_vars

InitLiveness ==
    LivenessInit /\ PortIdle /\ AgentIdle /\ ProjectIdle /\ OrchIdle /\ LaterIdle /\ call = NoCall

SpecLiveness == InitLiveness /\ [][LivenessNext]_vars

SpecEndpoints == InitMgr /\ [][EndpointNext]_vars

SpecPortReuse == InitMgr /\ [][PortReuseNext]_vars

SpecStopAgent == InitMgr /\ [][StopAgentNext]_vars

SpecStatus == InitMgr /\ [][StatusNext]_vars

InitPM ==
    /\ PMInit /\ TgIdle /\ SbIdle
    /\ PortIdle /\ AgentIdle /\ ProjectIdle /\ OrchIdle /\ MgrIdle /\ PAIdle /\ call = NoCall

SpecProjMgr == InitPM /\ [][PMNext]_vars

InitTg ==
    /\ TgInit /\ PMIdle /\ SbIdle
    /\ PortIdle /\ AgentIdle /\ ProjectIdle /\ OrchIdle /\ MgrIdle /\ PAIdle /\ call = NoCall

SpecBridge == InitTg /\ [][TgNext]_vars

InitRelay ==
    /\ TgIdle /\ PMIdle /\ SbIdle
    /\ PortIdle /\ AgentIdle /\ ProjectIdle /\ OrchIdle /\ MgrIdle /\ PAIdle /\ call = NoCall

SpecRelay == InitRelay /\ [][RelayNext]_vars

InitSb ==
    /\ SbInit /\ PMIdle /\ TgIdle
    /\ PortIdle /\ AgentIdle /\ ProjectIdle /\ OrchIdle /\ MgrIdle /\ PAIdle /\ call = NoCall

SpecSandbox == InitSb /\ [][SbNext]_vars

InitPA ==
    /\ PAInit /\ PMIdle /\ TgIdle /\ SbIdle
    /\ PortIdle /\ AgentIdle /\ ProjectIdle /\ OrchIdle /\ MgrIdle /\ call = NoCall

SpecToolReply == InitPA /\ [][PANext]_vars

(***************************************************************************)
(* Claims about PortConfig.                                                *)
(***************************************************************************)
PortRange == port_config.start_port .. (port_config.start_port + port_config.max_agents - 1)

FreePorts == PortRange \ Range(port_config.allocated_ports)

Lowest(S) == CHOOSE p \in S : \A q \in S : p <= q

\* No two roles hold the same port, and every held port is a slot of the pool.
PortsDistinct ==
    /\ \A r1, r2 \in DOMAIN port_config.allocated_ports :
           r1 # r2 => port_config.allocated_ports[r1] # port_config.allocated_ports[r2]
    /\ Range(port_config.allocated_ports) \subseteq PortRange

\* N roles in a pool of N slots use every slot.
PoolFilled ==
    Cardinality(DOMAIN port_config.allocated_ports) = port_config.max_agents
        => Range(port_config.allocated_ports) = PortRange

\* What one allocate_port call returns and changes, from the state before it.
AllocateStep ==
    call'.op = "allocate_port" =>
        LET role == call'.role
            held == port_config.allocated_ports
        IN IF role \in DOMAIN held
           THEN /\ call'.raised = "" /\ call'.port = held[role]
                /\ port_config' = port_config
           ELSE IF FreePorts = {}
           THEN /\ call'.raised = "No available ports"
                /\ port_config' = port_config
           ELSE /\ call'.raised = ""
                /\ call'.port = Lowest(FreePorts)
                /\ port_config'.allocated_ports = held @@ (role :> call'.port)

\* release_port(role) directly followed by allocate_port(role).
ReleaseThenAllocate ==
    /\ call.op = "release_port" /\ call.held
    /\ call'.op = "allocate_port" /\ call'.role = call.role

\* C1 (as stated): releasing a role then reallocating it returns the freed
\* port, after any sequence of allocate_port / release_port calls.
C1_ReallocReturnsFreedPort ==
    [][ReleaseThenAllocate => (call'.raised = "" /\ call'.port = call.port)]_vars

\* C1 (amended): allocate_port returns the role's own port if it holds one, else
\* the lowest free port of [start_port, start_port + max_agents), and raises
\* "No available ports" exactly when no port of the range is free; no two roles
\* ever hold the same port; N roles fill a pool of N slots; and releasing a role
\* then reallocating it returns the lowest free port, which is the freed port
\* exactly when no lower port is free.
C1_PortAllocation ==
    /\ [](PortsDistinct /\ PoolFilled)
    /\ [][AllocateStep]_vars
    /\ [][ReleaseThenAllocate =>
            /\ call'.raised = ""
            /\ call'.port <= call.port
            /\ (call'.port = call.port <=> \A p \in FreePorts : p >= call.port)]_vars

\* C1 witness: a pool of at least two slots is full again after an allocation
\* that filled a hole left by a release (the port returned is not the top slot).
C1_Witness ==
    /\ call.op = "allocate_port" /\ call.raised = ""
    /\ port_config.max_agents >= 2
    /\ Cardinality(DOMAIN port_config.allocated_ports) = port_config.max_agents
    /\ call.port < port_config.start_port + port_config.max_agents - 1

(***************************************************************************)
(* Claims about ClaudeAgent.                                               *)
(***************************************************************************)
\* assign_task(T): T is current, in progress and assigned to the agent's role.
AssignStep ==
    call'.op = "assign_task" =>
        /\ agent_state'.current_task = call'.task
        /\ tasks'[call'.task].status = "in_progress"
        /\ tasks'[call'.task].assigned_to = settings.role

\* complete_task(): returns the current task, done, and files it once at the
\* end of the history; with no current task returns None and changes nothing.
CompleteStep ==
    call'.op = "complete_task" =>
        IF agent_state.current_task # None
        THEN /\ call'.returned = agent_state.current_task
             /\ tasks'[call'.returned].status = "done"
             /\ agent_state'.current_task = None
             /\ agent_state'.task_history =
                    Append(agent_state.task_history, call'.returned)
        ELSE /\ call'.returned = None
             /\ agent_state' = agent_state
             /\ tasks' = tasks

\* C2: assign_task(T) makes T the current task, in_progress and assigned to the
\* agent's role; a following complete_task() returns T with status done, clears
\* the current task and appends T once at the end of task_history;
\* complete_task() with no current task returns None and changes nothing.
C2_AssignComplete == [][AssignStep /\ CompleteStep]_vars

\* C2 witness: complete_task() has just returned a task, after an earlier
\* completion, and the task is done and last in the history.
C2_Witness ==
    /\ call.op = "complete_task" /\ call.returned # None
    /\ agent_state.current_task = None
    /\ Len(agent_state.task_history) >= 2
    /\ agent_state.task_history[Len(agent_state.task_history)] = call.returned
    /\ tasks[call.returned].status = "done"

\* C3: over any sequence of assign_task and complete_task calls, a task's
\* status changes only todo -> in_progress and in_progress -> done.
C3_StrictStatusWalk ==
    [][\A t \in TaskObjs :
          tasks'[t].status # tasks[t].status =>
              \/ tasks[t].status = "todo" /\ tasks'[t].status = "in_progress"
              \/ tasks[t].status = "in_progress" /\ tasks'[t].status = "done"]_vars

\* C20: after any sequence of assign_task and complete_task calls, every task
\* that was ever assigned is the current task or is in task_history, and every
\* task in task_history has status done.
C20_NoTaskLost ==
    /\ \A t \in TaskObjs :
        tasks[t].assigned_to # None =>
            \/ agent_state.current_task = t
            \/ t \in Range(agent_state.task_history)
    /\ \A i \in 1..Len(agent_state.task_history) :
        tasks[agent_state.task_history[i]].status = "done"

\* The tokens_used values of the message log, in order.
LoggedTokens == [i \in 1..Len(agent_state.messages) |-> agent_state.messages[i].tokens_used]

\* C4: after any sequence of process_message calls, succeeding or failing, the
\* cumulative token counter equals the sum of tokens_used over the message log.
C4_CounterMatchesLog == agent_state.total_tokens_used = SumSeq(LoggedTokens)

(***************************************************************************)
(* Claims about ProjectConfig.                                             *)
(***************************************************************************)
\* The suffixes k >= 1 for which base-k is not a key.
FreeSuffixes(base, keys) ==
    {k \in 1..(Cardinality(keys) + 1) : Suffixed(base, k) \notin keys}

\* add_agent registers under a fresh id and keeps every existing entry: the
\* base id when free, else the base id with the smallest free suffix.
AddAgentStep ==
    call'.op = "add_agent" =>
        LET before == project_config.active_agents
            after == project_config'.active_agents
            base == agent_id(call'.role, call'.name)
            id == call'.returned
        IN /\ id \notin DOMAIN before
           /\ DOMAIN after = DOMAIN before \cup {id}
           /\ \A a \in DOMAIN before : after[a] = before[a]
           /\ after[id].role = call'.role /\ after[id].name = call'.name
           /\ IF base \notin DOMAIN before
              THEN id = base
              ELSE \E k \in FreeSuffixes(base, DOMAIN before) :
                      /\ id = Suffixed(base, k)
                      /\ \A j \in FreeSuffixes(base, DOMAIN before) : k <= j

\* Agents with the same name and different roles have different base ids.
SameNameNoCollision ==
    \A r1, r2 \in ProjectRoles, n \in AgentNames :
        r1 # r2 => agent_id(r1, n) # agent_id(r2, n)

\* C5: add_agent always registers the new agent under an id that was not a key
\* of active_agents, without overwriting an entry: the base id role-name (name
\* lower-cased, spaces to hyphens) when free, otherwise the base id with the
\* smallest free suffix -k, k >= 1; same name and different roles never collide.
C5_UniqueAgentId == [][AddAgentStep]_vars /\ []SameNameNoCollision

\* C5 witness: an agent named "X" was just registered under the suffix -2,
\* because the id with the suffix -1 is the base id of an agent named "x 1".
C5_Witness ==
    /\ call.op = "add_agent"
    /\ \E role \in ProjectRoles :
          /\ call.name = <<"X">>
          /\ call.returned = role \o <<"-", "x", "-", "2">>
          /\ role \o <<"-", "x", "-", "1">> \in DOMAIN project_config.active_agents
          /\ project_config.active_agents[role \o <<"-", "x", "-", "1">>].name
                 = <<"x", " ", "1">>

(***************************************************************************)
(* Claims about AgentOrchestrator.                                         *)
(***************************************************************************)
\* C6: create_agent(role) for a role that is not yet managed (and with a free
\* port, a process that spawns and an agent that answers in time) returns with
\* the role registered, status running and its process id recorded;
\* create_agent for a managed role fails with "already exists".
C6_CreateAgentRegisters ==
    call.op = "create_agent" =>
        IF call.managed
        THEN call.raised = "already exists"
        ELSE (call.env.popen = "ok" /\ call.env.ready) =>
                /\ call.raised = ""
                /\ call.role \in DOMAIN agents
                /\ agents[call.role].status = "running"
                /\ agents[call.role].pid = call.env.pid

\* A running agent and an unassigned open issue labelled for its role, which
\* the tracker returned to the last assign_github_tasks() run.
EligibleTask(p) ==
    /\ p[1] \in DOMAIN agents /\ agents[p[1]].status = "running"
    /\ issues[p[2]].state = "open" /\ p[1] \in issues[p[2]].labels
    /\ issues[p[2]].assignee = None
    /\ call.fetch[p[1]] = "ok"

\* C7 (as stated): for a running agent and an unassigned role-labelled issue,
\* assign_github_tasks() makes exactly one /assign call, exactly one status
\* update and, with a chat bridge, exactly one notification, each of them
\* attempted even when another fails.
C7_AllThreeAttempted ==
    (call.op = "assign_github_tasks" /\ github_sync) =>
        \A p \in Pairs : EligibleTask(p) =>
            /\ effects[p].posts = 1
            /\ effects[p].updates = 1
            /\ bridge.present => effects[p].notes = 1

\* C7 (amended): exactly one /assign call per such issue and none for any
\* other; the status update is made, once, exactly when /assign answered 200;
\* the notification is made, once, exactly when a bridge is present, /assign
\* answered 200 and the update call did not raise; a step that fails skips the
\* later steps of that issue only.
C7_AssignThenUpdateThenNotify ==
    (call.op = "assign_github_tasks" /\ github_sync) =>
        \A p \in Pairs :
            IF EligibleTask(p)
            THEN /\ effects[p].posts = 1
                 /\ effects[p].updates = 1 <=> effects[p].status = "200"
                 /\ effects[p].updates = 0 <=> effects[p].status # "200"
                 /\ effects[p].notes = 1 <=>
                        (bridge.present /\ effects[p].status = "200"
                                        /\ effects[p].result # "raise")
                 /\ effects[p].notes \in {0, 1}
            ELSE effects[p].posts = 0 /\ effects[p].updates = 0 /\ effects[p].notes = 0

\* C7 witness: in one run the /assign call of one eligible issue failed (no
\* update, no notification for it) and another eligible issue went through
\* all three calls.
C7_Witness ==
    /\ call.op = "assign_github_tasks" /\ github_sync /\ bridge.present
    /\ \E p, q \in Pairs :
          /\ EligibleTask(p) /\ EligibleTask(q)
          /\ effects[p].posts = 1 /\ effects[p].status = "raise"
          /\ effects[p].updates = 0 /\ effects[p].notes = 0
          /\ effects[q].posts = 1 /\ effects[q].updates = 1 /\ effects[q].notes = 1

(***************************************************************************)
(* Claims about AgentManager.                                              *)
(***************************************************************************)
\* The (project, agent) pairs recorded in a map of maps.
Entries(f) == UNION {{<<p, a>> : a \in DOMAIN f[p]} : p \in DOMAIN f}

\* The process exists and its command line really names a launcher script.
LauncherProcess(pid) ==
    /\ pid \in DOMAIN os_procs
    /\ os_procs[pid].cmdline \in {AgentCmdline, BridgeCmdline}

\* The process exists and its command line cannot be read.
UnreadableProcess(pid) ==
    /\ pid \in DOMAIN os_procs
    /\ ~os_procs[pid].readable

\* C8 as stated: right after the PID file is loaded, a recorded pid is tracked
\* exactly when its process exists and its command line references a
\* launcher script; every other recorded pid is left untracked.
C8_TrackedOnlyLaunchers ==
    call.op = "load" =>
        \A pa \in Entries(pid_file) :
            pa \in Entries(running_processes)
                <=> LauncherProcess(pid_file[pa[1]][pa[2]])

\* C8, amended: right after the PID file is loaded, a recorded pid is tracked
\* (as a bare pid) exactly when its process exists and either its command
\* line names a launcher script or its command line cannot be read; nothing
\* that is not in the file is tracked.
C8_TrackedAfterLoad ==
    call.op = "load" =>
        /\ Entries(running_processes) \subseteq Entries(pid_file)
        /\ \A pa \in Entries(pid_file) :
            LET pid == pid_file[pa[1]][pa[2]]
            IN  /\ pa \in Entries(running_processes)
                    <=> (pid \in DOMAIN os_procs
                         /\ (~os_procs[pid].readable
                             \/ LauncherProcess(pid)))
                /\ pa \in Entries(running_processes)
                    => running_processes[pa[1]][pa[2]]
                         = [pid |-> pid, popen |-> FALSE]

\* A load that tracks a pid whose command line cannot be read and leaves
\* out another recorded pid.
C8_Witness ==
    /\ call.op = "load"
    /\ \E pa \in Entries(running_processes) :
        UnreadableProcess(running_processes[pa[1]][pa[2]].pid)
    /\ Entries(pid_file) \ Entries(running_processes) # {}


StopResults == {"stopped", "failed: AccessDenied", "failed: PermissionError"}

\* C9: after stop_project_agents(p) returns, p has no entry in the process
\* map and none in the port map; the call returns a 'stopped'/'failed' result
\* for each tracked agent, or {"status": "no agents running"} when no agent
\* was tracked for p.
C9_StopClearsBothMaps ==
    call.op = "stop_project_agents" =>
        /\ call.project_id \notin DOMAIN running_processes
        /\ call.project_id \notin DOMAIN allocated_ports
        /\ IF call.tracked = {}
           THEN call.results = NoAgentsRunning
           ELSE /\ DOMAIN call.results = call.tracked
                /\ \A a \in call.tracked : call.results[a] \in StopResults

StartResults == {"started", "failed: No available ports", "failed: OSError"}

\* The agent is tracked with the Popen of a launcher process that is alive.
StartedNow(project_id, id) ==
    /\ project_id \in DOMAIN running_processes
    /\ id \in DOMAIN running_processes[project_id]
    /\ running_processes[project_id][id].popen
    /\ running_processes[project_id][id].pid \in DOMAIN os_procs
    /\ os_procs[running_processes[project_id][id].pid].cmdline
         = (IF id = BridgeId THEN BridgeCmdline ELSE AgentCmdline)

\* C10: when start_project_agents(p) returns, every active agent of p has a
\* result, 'started' or 'failed: ...' (the chat bridge may add one more);
\* whatever happened to the other agents, an agent reported 'started' is
\* tracked with its live process and an agent reported failed is not tracked.
C10_StartResultsPerAgent ==
    (call.op = "start_project_agents" /\ call.raised = None) =>
        /\ Range(call.active_agents) \subseteq DOMAIN call.results
        /\ DOMAIN call.results \subseteq Range(call.active_agents) \cup {BridgeId}
        /\ \A a \in DOMAIN call.results :
            /\ call.results[a] \in StartResults
            /\ call.results[a] = "started" <=> StartedNow(call.project_id, a)
        /\ call.project_id \in DOMAIN running_processes
        /\ DOMAIN running_processes[call.project_id]
             = {a \in DOMAIN call.results : call.results[a] = "started"}

\* A start in which the first agent fails to spawn and the second, after it,
\* is started.
C10_Witness ==
    /\ call.op = "start_project_agents"
    /\ call.raised = None
    /\ call.active_agents = <<"a1", "a2">>
    /\ call.results["a1"] = "failed: OSError"
    /\ call.results["a2"] = "started"
    /\ StartedNow(call.project_id, "a2")

(***************************************************************************)
(* Claims about ProjectManager.                                            *)
(***************************************************************************)
\* C11: when create_project fails at a step after the project directory was
\* created, the project directory does not exist once the error has reached
\* the caller.
C11_FailedCreateRemovesDir ==
    (call.op = "create_project" /\ call.raised) => ~proj_fs.dir

\* C12: when create_agent returns None it has not raised, and the directory
\* agents/{agent_id} it was creating does not exist.
C12_FailedAgentLeavesNoDir ==
    (call.op = "create_agent" /\ call.returned = <<None>>) =>
        /\ ~call.raised
        /\ agent_id(call.role, call.name) \notin proj_fs.workspaces

\* A create_agent that failed at a step after get_project() had returned the
\* project's configuration.
C12_Witness ==
    /\ call.op = "create_agent"
    /\ call.returned = <<None>>
    /\ ProjectId \in app_registry
    /\ proj_fs.config
    /\ agent_id(call.role, call.name) \notin call.dirs

\* C19: no two active agents record the same workspace path, and a
\* create_agent call leaves in place the clone directory of every agent that
\* was registered before it.
C19_CloneDirOwned ==
    /\ \A a, b \in DOMAIN project_file.active_agents :
        a # b => project_file.active_agents[a].workspace
                   # project_file.active_agents[b].workspace
    /\ call.op = "create_agent" =>
        \A a \in call.registered, d \in call.dirs :
            project_file.active_agents[a].workspace = AgentWorkspace(d)
                => d \in proj_fs.workspaces

\* C21: every project id in the app registry refers to a project directory
\* that exists and holds a loadable project configuration; in particular no
\* registry entry remains once create_project has failed and removed the
\* project directory.
C21_RegistryHasDirectory ==
    ProjectId \in app_registry => (proj_fs.dir /\ proj_fs.config)

(***************************************************************************)
(* Claims about the chat bridges.                                          *)
(***************************************************************************)
\* The end of the "@role" mention a message starts with, and the start of the
\* text that follows the mention and the white space after it.
MentionEnd(m) == RunEnd(m, 2, WordChars)

TextStart(m) == RunEnd(m, MentionEnd(m), SpaceChars)

\* s without the white space at its end.
RECURSIVE RStrip(_)
RStrip(s) ==
    IF s # << >> /\ s[Len(s)] \in SpaceChars
    THEN RStrip(SubSeq(s, 1, Len(s) - 1)) ELSE s

\* The message with the mention stripped.
AddressedText(m) == RStrip(SubSeq(m, TextStart(m), Len(m)))

\* The message starts with @role followed by text.
StartsWithMention(m) ==
    /\ Len(m) >= 2 /\ m[1] = "@"
    /\ MentionEnd(m) > 2
    /\ TextStart(m) > MentionEnd(m)
    /\ AddressedText(m) # << >>

AddressedRole(m) == lower(SubSeq(m, 2, MentionEnd(m) - 1))

\* The message has an @role mention somewhere.
HasMention(m) ==
    \E i \in 1..(Len(m) - 1) : m[i] = "@" /\ m[i + 1] \in WordChars

\* The replies are the text "ROLE responds" with the agent's response, whole
\* or in consecutive pieces.
RespondsReply(replies, role, response) ==
    /\ Len(replies) >= 1
    /\ \A i \in 1..Len(replies) :
        /\ replies[i].text.kind = "responds"
        /\ replies[i].text.role = upper(role)
        /\ replies[i].text.response = response
        /\ replies[i].from = (IF i = 1 THEN 0 ELSE replies[i - 1].to)
    /\ replies[Len(replies)].to = replies[1].text.len

\* C13: a message that starts with @role followed by text makes exactly one
\* /ask call to the agent registered for the role, carrying the text with the
\* mention stripped, and (when the agent answers) the reply has "ROLE responds"
\* and the agent's response; for an unregistered role there is no /ask call
\* and a "No agent found for role" reply; a message without an @role mention
\* causes no call and no reply.
C13_ChatRouting ==
    call.op = "_handle_message" =>
        LET m == tg_update
            role == AddressedRole(m)
        IN  /\ (StartsWithMention(m) /\ role \in DOMAIN tg_registry) =>
                /\ Len(call.posts) = 1
                /\ call.posts[1].url = <<tg_registry[role].url, "/ask">>
                /\ RStrip(call.posts[1].message) = AddressedText(m)
                /\ (call.outcome.kind = "response" /\ call.outcome.status_code = 200) =>
                        RespondsReply(call.replies, role, call.outcome.response)
            /\ (StartsWithMention(m) /\ role \notin DOMAIN tg_registry) =>
                /\ call.posts = << >>
                /\ call.replies = <<Notice("no agent found", role)>>
            /\ ~HasMention(m) =>
                /\ call.posts = << >>
                /\ call.replies = << >>

\* C14: an agent response longer than 4000 characters relayed by a chat bridge
\* is sent as more than one chat message, and every message sent, with its
\* [i/n] suffix, is within the 4096-character ceiling.
C14_LongReplySplit ==
    /\ (/\ call.op = "_handle_message"
        /\ call.posts # << >>
        /\ call.outcome.kind = "response"
        /\ call.outcome.status_code = 200
        /\ TextLen(call.outcome.response) > SplitAt) =>
            /\ Len(call.replies) > 1
            /\ \A i \in 1..Len(call.replies) :
                call.replies[i].to - call.replies[i].from <= TelegramLimit
    /\ (/\ call.op = "send_to_agent"
        /\ call.relayed
        /\ TextLen(call.outcome.response) > SplitAt) =>
            /\ Len(call.sent) > 1
            /\ \A i \in 1..Len(call.sent) : call.sent[i] <= TelegramLimit

(***************************************************************************)
(* Claims about AgentTools.                                                *)
(***************************************************************************)
FileTools == {"read_file", "write_file", "list_files", "get_file_info"}

\* Where the requested path leads once ".." and links are resolved.
RequestedTarget ==
    resolve(sb_links, IF sb_path.absolute THEN sb_path.parts
                      ELSE WorkspacePath \o sb_path.parts)

\* p lies inside the workspace root or inside an extra allowed path.
InsideBoundary(p) ==
    \/ relative_to(p, resolve(sb_links, WorkspacePath))
    \/ \E a \in sb_allowed : relative_to(p, resolve(sb_links, a))

\* C15: a path is accepted only if, with ".." and links resolved, it lies
\* inside the workspace root or an extra allowed path; read_file, write_file,
\* list_files and get_file_info on any other path fail with the path-violation
\* error and touch no file.
C15_SandboxContainment ==
    call.op \in FileTools =>
        /\ ~InsideBoundary(RequestedTarget) =>
            /\ call.raised = "ValueError: outside workspace"
            /\ call.touched = {}
        /\ \A p \in call.touched : InsideBoundary(p)

\* A file tool has refused a path given through a link that lies in the
\* workspace and points outside it.
C15_Witness ==
    /\ call.op \in FileTools
    /\ ~sb_path.absolute
    /\ sb_path.parts # << >> /\ sb_path.parts[1] = "lnk"
    /\ WorkspacePath \o <<"lnk">> \in DOMAIN sb_links
    /\ ~InsideBoundary(RequestedTarget)
    /\ call.raised = "ValueError: outside workspace"

(***************************************************************************)
(* Claims about the stop paths and the single-agent endpoints.             *)
(***************************************************************************)
\* C16: a stop first requests graceful termination and force-kills only a
\* process that has not exited within the wait of up to 5 seconds; the
\* force-kill never comes before the graceful request.
C16_GracefulThenKill ==
    call.op = "stop_single_agent" =>
        /\ call.signals # << >> => call.signals[1] = "SIGTERM"
        /\ "SIGKILL" \in Range(call.signals) => call.delay > GracefulWaitMs

\* The pids of the tracked processes.
TrackedPids(rp) ==
    UNION {{rp[p][a].pid : a \in DOMAIN rp[p]} : p \in DOMAIN rp}

\* C17: a project-level or single-agent start never leaves a process that
\* was tracked before the call alive and untracked after it.
C17_NoOrphanOnStart ==
    [][call'.op \in {"start_project_agents", "start_single_agent"} =>
          \A pid \in TrackedPids(running_processes) \cap DOMAIN os_procs :
              pid \in DOMAIN os_procs' => pid \in TrackedPids(running_processes')]_vars

\* The (project, agent) pairs with a port in the port map.
PortPairs ==
    UNION {{<<p, a>> : a \in DOMAIN allocated_ports[p]} : p \in DOMAIN allocated_ports}

C22_FilesMatchMemory ==
    LET completed ==
            \/ call.op = "stop_project_agents"
            \/ call.op = "start_project_agents" /\ call.raised = None
            \/ call.op \in {"start_single_agent", "stop_single_agent"}
                    /\ call.status = 200
    IN  completed =>
            /\ pid_file = save_pid_file(running_processes)
            /\ port_file = allocated_ports

\* C23: when start_project_agents(p) starts an agent of p whose previously
\* allocated port is still free (no other program has bound it and no
\* process of p survived the stop step), the agent is started on that same
\* port, also when p's agents were tracked before the call.
C23_ReusesFreePort ==
    [][(call'.op = "start_project_agents" /\ call'.raised = None
            /\ ~call'.refused /\ call'.project_id \in DOMAIN allocated_ports) =>
        LET p == call'.project_id IN
        \A a \in Range(call'.active_agents) \cap DOMAIN allocated_ports[p] :
            (allocated_ports[p][a] \notin call'.busy /\ call'.results[a] = "started")
                => allocated_ports'[p][a] = allocated_ports[p][a]]_vars

\* C24: ports do not leak: once a stop operation (the project-level stop or
\* the stop of one agent) has returned, every (project, agent) entry of the
\* port map belongs to an agent that is tracked in the process map, so a
\* project whose agents have all been stopped holds no port.
C24_PortsOnlyForTracked ==
    call.op \in {"stop_project_agents", "stop_single_agent"} =>
        \A e \in PortPairs :
            /\ e[1] \in DOMAIN running_processes
            /\ e[2] \in DOMAIN running_processes[e[1]]

\* C25: the single-agent stop endpoint reports success and leaves the agent
\* absent from the process map in every case: tracked by a live process
\* handle, tracked by a bare PID, not tracked at all, or tracked while its
\* process has already exited.
C25_StopAlwaysSucceeds ==
    call.op = "stop_single_agent" =>
        (call.status = 200 /\ ~call.still_tracked)

\* C26: for every registered project get_all_projects_status reports
\* total_agents equal to the number of agents tracked for the project and
\* running_agents equal to the number of those whose process is running; a
\* project with no tracked agents reports 0 for both.
C26_StatusCounts ==
    call.op = "get_all_projects_status" =>
        \A p \in Projects :
            /\ call.totals[p].total_agents = Cardinality(TrackedIds(p))
            /\ call.totals[p].running_agents = Cardinality(AliveIds(p))

(***************************************************************************)
(* Claims about the project agent's tool requests.                         *)
(***************************************************************************)
\* C27: whenever the model's response contains a {"tool": ...} block for a
\* recognized tool name that fails to parse as JSON, the reply of
\* process_message contains a warning naming that tool, and the remaining
\* text and tool invocations of the response are still processed.
C27_MalformedToolWarned ==
    call.op = "project_agent_process_message" =>
        \A i \in 1..Len(pa_response) :
            LET seg == pa_response[i]
                malformed_present ==
                    \E k \in 1..Len(pa_response) :
                        /\ pa_response[k].kind = "block"
                        /\ pa_response[k].outcome = "malformed"
            IN  /\ (seg.kind = "block" /\ seg.outcome = "malformed") =>
                    [kind |-> "warning", tool |-> seg.tool, at |-> i]
                        \in Range(call.reply)
                /\ (malformed_present /\ seg.kind = "text") =>
                    [kind |-> "text", at |-> i] \in Range(call.reply)
                /\ (malformed_present /\ seg.kind = "block" /\ seg.outcome = "runs") =>
                    [kind |-> "result", tool |-> seg.tool, at |-> i]
                        \in Range(call.reply)

(***************************************************************************)
(* Later claims about the orchestrator and the project configuration.      *)
(***************************************************************************)
\* C28: a failed create_agent for a role that was not managed leaves the
\* orchestrator as it was: the role is not registered, no port remains
\* allocated to it and no process is tracked for it; hence the roles holding
\* a port are exactly the registered agents.
C28_FailedCreateLeavesNothing ==
    /\ (call.op = "create_agent" /\ call.raised # "" /\ ~call.managed) =>
            /\ call.role \notin DOMAIN agents
            /\ call.role \notin DOMAIN port_config.allocated_ports
            /\ call.role \notin DOMAIN processes
    /\ DOMAIN port_config.allocated_ports = DOMAIN agents

\* C29: an issue that an assign_github_tasks run has successfully posted to
\* an agent's /assign endpoint is not posted to /assign again by the next
\* assign_github_tasks run while the issue stays open.
C29_NoRepeatedAssign ==
    [][\A p \in Pairs :
        (/\ call.op = "assign_github_tasks"
         /\ effects[p].status = "200"
         /\ call'.op = "assign_github_tasks"
         /\ issues'[p[2]].state = "open")
            => effects'[p].posts = 0]_vars

\* C30: the project's agent_configurations map only holds entries for active
\* agents: once remove_agent(id) has returned the agent's configuration is
\* gone, and an agent added afterwards starts from its role's default
\* configuration.
C30_ConfigurationsOnlyForActive ==
    /\ DOMAIN project_config.agent_configurations
            \subseteq DOMAIN project_config.active_agents
    /\ call.op = "add_agent" =>
            project_config.agent_configurations[call.returned]
                = DefaultConfiguration(call.returned, call.role)

====
